---- MODULE Spec2Model ----
(***************************************************************************)
(* Model of City Sustain Mapper.  Of the backend (src/backend/server.js):  *)
(* the shared throttle, the shared cache, the upstream gateway fetch       *)
(* functions and the HTTP endpoints that call them.  Of the map page       *)
(* (src/frontend/src/App.js and the earlier version of that file kept as   *)
(* src/unnamed/part_000): the building fetch, the cluster builder, the     *)
(* grid passes and the scores.                                             *)
(*                                                                         *)
(* Units.  Time is in milliseconds.  Coordinates are integers in units of  *)
(* 1e-4 degree, so that the 3-decimal quantisation of getCacheKey is a     *)
(* real rounding.  Irradiance and temperature are integers in tenths of    *)
(* their unit, daily rainfall and PM2.5 in hundredths, annual rainfall in  *)
(* whole mm (fixed point for the JavaScript doubles).                      *)
(*                                                                         *)
(* Scheduling.  Node runs one callback at a time.  An action of the model  *)
(* is one such callback: the code from the event that starts it (an HTTP   *)
(* request, a timer, an upstream response) up to the next await that       *)
(* really suspends; awaits of already settled promises are continued in    *)
(* the same action, as the microtask queue does.                           *)
(***************************************************************************)
EXTENDS Integers, Sequences, FiniteSets, TLC

VARIABLES now, lastRequestTime, dataCache, ep, body, pc, calls, resp, after,
          op, arg, ret,
          viewport, moveTimeout, fetches, buildings, buildingLayers

\* the server: its clock, throttle and cache, and its requests
serverVars == <<now, lastRequestTime, dataCache, ep, body, pc, calls, resp, after>>
\* one function applied on its own: its name, its arguments, its result
callVars == <<op, arg, ret>>
\* the map page: its viewport, the timer of its moveend handler, its
\* fetchBuildings runs, the building set and the polygons on the map
pageVars == <<viewport, moveTimeout, fetches, buildings, buildingLayers>>

vars == <<serverVars, callVars, pageVars>>

----------------------------------------------------------------------------
(* Bounds of the model *)

\* number of HTTP requests the server receives
NReq == 2
\* Date.now() when the server starts
StartTime == 1000
\* number of short clock steps within one day
MaxTicks == 2
\* the cache's capacity, standing for the 1000 of setCache
MaxCacheEntries == 3

Reqs == 1..NReq

----------------------------------------------------------------------------
(* Program constants *)

CACHE_DURATION == 86400000
MIN_REQUEST_INTERVAL == 500

\* JavaScript values that are not numbers of the model's ranges
Undefined == -9000001
Null == -9000002
NaN == -9000003
SENTINEL == -999

IsNumber(x) == x \notin {Undefined, Null, NaN}
\* JavaScript's !x for a value that is a number, undefined, null or NaN
Falsy(x) == x \in {Undefined, Null, NaN, 0}

Abs(x) == IF x < 0 THEN -x ELSE x
\* Math.round of the non-negative rational num/den
RoundDiv(num, den) == (2 * num + den) \div (2 * den)

RECURSIVE SumSeq(_)
SumSeq(s) == IF s = <<>> THEN 0 ELSE Head(s) + SumSeq(Tail(s))

RECURSIVE FilterSentinel(_)
FilterSentinel(s) ==
  IF s = <<>> THEN <<>>
  ELSE IF Head(s) # SENTINEL THEN <<Head(s)>> \o FilterSentinel(Tail(s))
  ELSE FilterSentinel(Tail(s))

\* values.reduce((a, b) => a + b, 0) / values.length : 0/0 is NaN
Average(values) ==
  IF Len(values) = 0 THEN NaN ELSE SumSeq(values) \div Len(values)

----------------------------------------------------------------------------
(* The cache: a Map in insertion order *)

\* Number.prototype.toFixed(3) of a coordinate given in 1e-4 degree
toFixed3(x) == IF x >= 0 THEN (x + 5) \div 10 ELSE -((-x + 5) \div 10)

\* the key without the rounding
getCacheKeyExact(type, lat, lng) == <<type, lat, lng>>

getCacheKey(type, lat, lng) == <<type, toFixed3(lat), toFixed3(lng)>>

Miss == [miss |-> TRUE]

CacheIndex(cache, key) ==
  IF \E i \in 1..Len(cache) : cache[i].key = key
  THEN CHOOSE i \in 1..Len(cache) : cache[i].key = key
  ELSE 0

\* as getFromCache, with an entry still valid at the age of CACHE_DURATION
getFromCacheInclusive(cache, key, t) ==
  LET i == CacheIndex(cache, key) IN
  IF i > 0 /\ t - cache[i].timestamp <= CACHE_DURATION
  THEN cache[i].data
  ELSE Miss

getFromCache(cache, key, t) ==
  LET i == CacheIndex(cache, key) IN
  IF i > 0 /\ t - cache[i].timestamp < CACHE_DURATION
  THEN cache[i].data
  ELSE Miss

\* as setCache, evicting only from one entry later
setCacheLate(cache, key, data, t) ==
  LET i == CacheIndex(cache, key)
      e == [key |-> key, data |-> data, timestamp |-> t,
            born |-> IF i > 0 THEN cache[i].born ELSE t]
      c1 == IF i > 0 THEN [cache EXCEPT ![i] = e] ELSE Append(cache, e)
  IN IF Len(c1) > MaxCacheEntries + 1 THEN Tail(c1) ELSE c1

\* as setCache, with an overwritten key moved to the end of the order
setCacheMoveToEnd(cache, key, data, t) ==
  LET i == CacheIndex(cache, key)
      e == [key |-> key, data |-> data, timestamp |-> t,
            born |-> IF i > 0 THEN cache[i].born ELSE t]
      rest == SelectSeq(cache, LAMBDA x : x.key # key)
      c1 == Append(rest, e)
  IN IF Len(c1) > MaxCacheEntries THEN Tail(c1) ELSE c1

\* born is history: when the key of the entry was put into the Map, which
\* an overwrite of the key does not change
setCache(cache, key, data, t) ==
  LET i == CacheIndex(cache, key)
      e == [key |-> key, data |-> data, timestamp |-> t,
            born |-> IF i > 0 THEN cache[i].born ELSE t]
      c1 == IF i > 0 THEN [cache EXCEPT ![i] = e] ELSE Append(cache, e)
  IN IF Len(c1) > MaxCacheEntries THEN Tail(c1) ELSE c1

----------------------------------------------------------------------------
(* The throttle *)

\* as throttleRequest, sleeping half of the time that is left
throttleRequestHalf(t, last) ==
  LET timeSinceLastRequest == t - last IN
  IF timeSinceLastRequest < MIN_REQUEST_INTERVAL
  THEN [pc |-> "waiting",
        wake |-> t + (MIN_REQUEST_INTERVAL - timeSinceLastRequest) \div 2,
        last |-> last]
  ELSE [pc |-> "inflight", wake |-> 0, last |-> t]

\* throttleRequest up to its await: the caller either goes on at once and
\* stamps lastRequestTime, or sleeps until wake
throttleRequest(t, last) ==
  LET timeSinceLastRequest == t - last IN
  IF timeSinceLastRequest < MIN_REQUEST_INTERVAL
  THEN [pc |-> "waiting", wake |-> t + (MIN_REQUEST_INTERVAL - timeSinceLastRequest),
        last |-> last]
  ELSE [pc |-> "inflight", wake |-> 0, last |-> t]

----------------------------------------------------------------------------
(* Upstream outcomes: what axios.get can settle with *)

TimeoutOutcome == [kind |-> "timeout"]
StatusOutcome(code) == [kind |-> "status", status |-> code]
\* a 2xx response whose body has none of the fields the code reads
MalformedOutcome == [kind |-> "malformed"]
OkOutcome(d) == [kind |-> "ok", data |-> d]

\* new Date().toISOString() in a response body: the model keeps the field
\* and not the clock reading, which no code reads back
Iso == "timestamp"

Failures == {TimeoutOutcome, StatusOutcome(429), MalformedOutcome}

\* error.message of the exception the outcome raises in the caller: a text
\* of axios or of the runtime, never empty, that the model does not spell out
ErrorMessage(o) == "error.message"

\* NASA POWER daily series, tenths of kWh/m2/day and of a degree C
NasaPayloads ==
  { [ALLSKY_SFC_SW_DWN |-> <<40, SENTINEL, 64>>, T2M |-> <<300, SENTINEL, 340>>],
    [ALLSKY_SFC_SW_DWN |-> <<SENTINEL, SENTINEL>>, T2M |-> <<SENTINEL, SENTINEL>>] }
NasaOutcomes == Failures \cup { OkOutcome(d) : d \in NasaPayloads }

\* Open-Meteo daily precipitation sums, hundredths of a mm
PrecipPayloads == { <<200, Null, 400>>, <<>> }
PrecipOutcomes == Failures \cup { OkOutcome(d) : d \in PrecipPayloads }

----------------------------------------------------------------------------
(* Gateway fetch functions.  Each is split at its awaits: fetchX is the    *)
(* code up to the await inside throttleRequest, fetchXSettle the code      *)
(* after axios.get has settled.                                            *)

Pending == [pending |-> TRUE]
NoOutcome == "none"
Never == Undefined

\* A call of a gateway function.  pc, wake and out are the call's state: where
\* it is suspended, when its throttle timer fires, what it returned.  The
\* other fields record what happened for the properties below: whether the
\* value came from the cache (hit), when the upstream request was issued
\* (sentAt, Never if it was not) and whether the upstream answered with a
\* usable 2xx response or failed (outcome).
NewCall(fn, lat, lng, key, th, t) ==
  [fn |-> fn, lat |-> lat, lng |-> lng, key |-> key, pc |-> th.pc,
   wake |-> th.wake, out |-> Pending, hit |-> FALSE,
   sentAt |-> IF th.pc = "inflight" THEN t ELSE Never, outcome |-> NoOutcome]

HitCall(fn, lat, lng, key, cached) ==
  [fn |-> fn, lat |-> lat, lng |-> lng, key |-> key, pc |-> "done",
   wake |-> 0, out |-> cached, hit |-> TRUE,
   sentAt |-> Never, outcome |-> NoOutcome]

\* throttleRequest before the cache lookup
CachedFetchThrottleFirst(type, lat, lng, t, last, cache) ==
  LET cacheKey == getCacheKey(type, lat, lng)
      cached == getFromCache(cache, cacheKey, t)
      th == throttleRequest(t, last)
  IN IF cached # Miss
     THEN [call |-> HitCall(type, lat, lng, cacheKey, cached), last |-> th.last]
     ELSE [call |-> NewCall(type, lat, lng, cacheKey, th, t), last |-> th.last]

\* cache lookup, then throttleRequest: the new call and the new lastRequestTime
CachedFetch(type, lat, lng, t, last, cache) ==
  LET cacheKey == getCacheKey(type, lat, lng)
      cached == getFromCache(cache, cacheKey, t)
  IN IF cached # Miss
     THEN [call |-> HitCall(type, lat, lng, cacheKey, cached), last |-> last]
     ELSE LET th == throttleRequest(t, last)
          IN [call |-> NewCall(type, lat, lng, cacheKey, th, t), last |-> th.last]

fetchSolarData(latitude, longitude, t, last, cache) ==
  CachedFetch("solar", latitude, longitude, t, last, cache)

fetchTemperaturePoint(latitude, longitude, t, last, cache) ==
  CachedFetch("temp", latitude, longitude, t, last, cache)

fetchPrecipitationData(latitude, longitude, t, last, cache) ==
  CachedFetch("precip", latitude, longitude, t, last, cache)

\* the failure result with zeros for the missing averages
fetchSolarDataSettleZero(o) ==
  IF o.kind = "ok"
  THEN LET irradianceValues == FilterSentinel(o.data.ALLSKY_SFC_SW_DWN)
           tempValues == FilterSentinel(o.data.T2M)
       IN [store |-> TRUE,
           out |-> [avgIrradiance |-> Average(irradianceValues),
                    avgTemperature |-> Average(tempValues),
                    dataPoints |-> Len(irradianceValues),
                    source |-> "NASA POWER API",
                    isReal |-> TRUE]]
  ELSE [store |-> FALSE,
        out |-> [avgIrradiance |-> 0,
                 avgTemperature |-> 0,
                 dataPoints |-> 0,
                 source |-> "NASA POWER API",
                 isReal |-> FALSE,
                 note |-> <<"API Error: ", ErrorMessage(o)>>]]

\* the value the function returns and whether it was passed to setCache
fetchSolarDataSettle(o) ==
  IF o.kind = "ok"
  THEN LET irradianceValues == FilterSentinel(o.data.ALLSKY_SFC_SW_DWN)
           tempValues == FilterSentinel(o.data.T2M)
       IN [store |-> TRUE,
           out |-> [avgIrradiance |-> Average(irradianceValues),
                    avgTemperature |-> Average(tempValues),
                    dataPoints |-> Len(irradianceValues),
                    source |-> "NASA POWER API",
                    isReal |-> TRUE]]
  ELSE [store |-> FALSE,
        out |-> [avgIrradiance |-> Null,
                 avgTemperature |-> Null,
                 dataPoints |-> 0,
                 source |-> "NASA POWER API",
                 isReal |-> FALSE,
                 note |-> <<"API Error: ", ErrorMessage(o)>>]]

\* as fetchTemperaturePointSettle, the result of a failure stored as well
fetchTemperaturePointSettleStoreAll(o) ==
  IF o.kind = "ok"
  THEN LET tempValues == FilterSentinel(o.data.T2M)
       IN [store |-> TRUE,
           out |-> [avgTemperature |-> Average(tempValues), isReal |-> TRUE]]
  ELSE [store |-> TRUE,
        out |-> [avgTemperature |-> Null, isReal |-> FALSE,
                 note |-> <<ErrorMessage(o)>>]]

fetchTemperaturePointSettle(o) ==
  IF o.kind = "ok"
  THEN LET tempValues == FilterSentinel(o.data.T2M)
       IN [store |-> TRUE,
           out |-> [avgTemperature |-> Average(tempValues), isReal |-> TRUE]]
  ELSE [store |-> FALSE,
        out |-> [avgTemperature |-> Null, isReal |-> FALSE,
                 note |-> <<ErrorMessage(o)>>]]

typicalBangladeshRainfall == 2200

\* parseFloat(x.toFixed(0)) of a value in hundredths: whole units
toFixed0(x) == IF x = NaN THEN NaN ELSE RoundDiv(x, 100)

RECURSIVE SumOrZero(_)
\* precipData.reduce((sum, val) => sum + (val || 0), 0)
SumOrZero(s) ==
  IF s = <<>> THEN 0
  ELSE (IF Falsy(Head(s)) THEN 0 ELSE Head(s)) + SumOrZero(Tail(s))

fetchPrecipitationDataSettle(o, t) ==
  IF o.kind = "ok"
  THEN LET precipData == o.data
           totalPrecip == SumOrZero(precipData)
           \* hundredths of a mm, which is what toFixed(2) keeps
           avgDaily == IF Len(precipData) = 0 THEN NaN
                       ELSE RoundDiv(totalPrecip, Len(precipData))
           annualPrecip == IF avgDaily = NaN THEN NaN ELSE avgDaily * 365
       IN [store |-> TRUE,
           out |-> [avgDailyPrecipitation |-> avgDaily,
                    annualPrecipitation |-> toFixed0(annualPrecip),
                    dataPoints |-> Len(precipData),
                    source |-> "Open-Meteo Forecast API (3 months historical)",
                    isReal |-> TRUE,
                    lastUpdate |-> t]]
  ELSE [store |-> FALSE,
        out |-> [avgDailyPrecipitation |->
                   RoundDiv(typicalBangladeshRainfall * 100, 365),
                 annualPrecipitation |-> typicalBangladeshRainfall,
                 dataPoints |-> 0,
                 source |-> "Typical Bangladesh average (API unavailable)",
                 isReal |-> FALSE,
                 note |-> IF o.kind = "status" /\ o.status = 429
                          THEN <<"Rate limit reached. Using regional average.">>
                          ELSE <<"Using regional average rainfall data.">>]]

----------------------------------------------------------------------------
(* Per-building analysis *)

\* PANEL_EFFICIENCY, PERFORMANCE_RATIO and RUNOFF_COEFFICIENT in percent
PANEL_EFFICIENCY == 20
PERFORMANCE_RATIO == 85
DAYS_PER_YEAR == 365
RUNOFF_COEFFICIENT == 90

\* area in m2, avgIrradiance in tenths: energy = num / den kWh
calculateSolarPotential(area, solarData) ==
  IF ~solarData.isReal \/ Falsy(solarData.avgIrradiance)
  THEN [error |-> "Cannot calculate - no real solar data available"]
  ELSE LET avgIrradiance == solarData.avgIrradiance
           num == area * avgIrradiance * DAYS_PER_YEAR
                    * ((PANEL_EFFICIENCY * PERFORMANCE_RATIO) \div 100)
           den == 10 * 100
       IN [annualEnergy |-> RoundDiv(num, den),
           avgIrradiance |-> avgIrradiance,
           panelEfficiency |-> PANEL_EFFICIENCY,
           performanceRatio |-> PERFORMANCE_RATIO,
           estimatedPanels |-> area \div 2,
           co2Offset |-> RoundDiv(num, 2 * den),
           isReal |-> TRUE]

\* annualPrecipitation in mm: water = num / den litres
calculateRainwaterPotential(area, precipData) ==
  IF ~precipData.isReal \/ Falsy(precipData.annualPrecipitation)
  THEN [error |-> "Cannot calculate - no real precipitation data available"]
  ELSE LET num == area * precipData.annualPrecipitation * RUNOFF_COEFFICIENT
           den == 100
       IN [annualWater |-> RoundDiv(num, den),
           avgPrecipitation |-> precipData.avgDailyPrecipitation,
           runoffCoefficient |-> RUNOFF_COEFFICIENT,
           storageTankSize |-> (num + den * 12000 - 1) \div (den * 12000),
           householdsSupported |-> num \div (den * 50000),
           isReal |-> TRUE]

----------------------------------------------------------------------------
(* Air quality *)

\* the six PM2.5 bands, concentrations in hundredths
breakpoints ==
  << [cLow |-> 0, cHigh |-> 1200, iLow |-> 0, iHigh |-> 50],
     [cLow |-> 1210, cHigh |-> 3540, iLow |-> 51, iHigh |-> 100],
     [cLow |-> 3550, cHigh |-> 5540, iLow |-> 101, iHigh |-> 150],
     [cLow |-> 5550, cHigh |-> 15040, iLow |-> 151, iHigh |-> 200],
     [cLow |-> 15050, cHigh |-> 25040, iLow |-> 201, iHigh |-> 300],
     [cLow |-> 25050, cHigh |-> 50040, iLow |-> 301, iHigh |-> 500] >>

\* as calculateAQI, without the clamp above the highest band
calculateAQINoClamp(pm25) ==
  IF ~IsNumber(pm25) THEN 0
  ELSE IF \E k \in 1..Len(breakpoints) :
            pm25 >= breakpoints[k].cLow /\ pm25 <= breakpoints[k].cHigh
  THEN LET k == CHOOSE j \in 1..Len(breakpoints) :
                  /\ pm25 >= breakpoints[j].cLow /\ pm25 <= breakpoints[j].cHigh
                  /\ \A i \in 1..(j - 1) :
                       ~(pm25 >= breakpoints[i].cLow /\ pm25 <= breakpoints[i].cHigh)
           bp == breakpoints[k]
       IN bp.iLow + RoundDiv((bp.iHigh - bp.iLow) * (pm25 - bp.cLow),
                             bp.cHigh - bp.cLow)
  ELSE 0

calculateAQI(pm25) ==
  IF ~IsNumber(pm25) THEN 0
  ELSE IF \E k \in 1..Len(breakpoints) :
            pm25 >= breakpoints[k].cLow /\ pm25 <= breakpoints[k].cHigh
  THEN LET k == CHOOSE j \in 1..Len(breakpoints) :
                  /\ pm25 >= breakpoints[j].cLow /\ pm25 <= breakpoints[j].cHigh
                  /\ \A i \in 1..(j - 1) :
                       ~(pm25 >= breakpoints[i].cLow /\ pm25 <= breakpoints[i].cHigh)
           bp == breakpoints[k]
       IN bp.iLow + RoundDiv((bp.iHigh - bp.iLow) * (pm25 - bp.cLow),
                             bp.cHigh - bp.cLow)
  ELSE IF pm25 > 50040 THEN 500 ELSE 0

getAQICategory(aqi) ==
  IF aqi <= 50 THEN "Good"
  ELSE IF aqi <= 100 THEN "Moderate"
  ELSE IF aqi <= 150 THEN "Unhealthy for Sensitive Groups"
  ELSE IF aqi <= 200 THEN "Unhealthy"
  ELSE IF aqi <= 300 THEN "Very Unhealthy"
  ELSE "Hazardous"

getAQIColor(aqi) ==
  IF aqi <= 50 THEN "#00e400"
  ELSE IF aqi <= 100 THEN "#ffff00"
  ELSE IF aqi <= 150 THEN "#ff7e00"
  ELSE IF aqi <= 200 THEN "#ff0000"
  ELSE IF aqi <= 300 THEN "#8f3f97"
  ELSE "#7e0023"

\* obj[k] = v on a JavaScript object
SetField(obj, k, v) == [x \in DOMAIN obj \cup {k} |-> IF x = k THEN v ELSE obj[x]]
NoFields == [x \in {} |-> 0]

paramMapping(paramName) ==
  CASE paramName \in {"pm25", "pm2.5"} -> "pm25"
    [] paramName = "pm10" -> "pm10"
    [] paramName \in {"no2", "nitrogen dioxide"} -> "no2"
    [] paramName \in {"o3", "ozone"} -> "o3"
    [] paramName \in {"so2", "sulfur dioxide"} -> "so2"
    [] paramName \in {"co", "carbon monoxide"} -> "co"
    [] OTHER -> paramName

Measurement(locId, lat, lng, param, value, datetime) ==
  [locationId |-> locId, latitude |-> lat, longitude |-> lng,
   parameter |-> param, value |-> value, datetime |-> datetime]

LocIndex(locationMap, locId) ==
  IF \E i \in 1..Len(locationMap) : locationMap[i].id = locId
  THEN CHOOSE i \in 1..Len(locationMap) : locationMap[i].id = locId
  ELSE 0

\* the body of results.forEach: one measurement grouped into locationMap
GroupMeasurement(locationMap, m) ==
  IF Falsy(m.locationId) \/ m.latitude \in {Null, Undefined}
       \/ m.longitude \in {Null, Undefined}
  THEN locationMap
  ELSE LET fresh == [id |-> m.locationId, name |-> <<"Station", m.locationId>>,
                     latitude |-> m.latitude, longitude |-> m.longitude,
                     measurements |-> NoFields, sourceType |-> "station",
                     lastUpdate |-> Null]
           lm == IF LocIndex(locationMap, m.locationId) = 0
                 THEN Append(locationMap, fresh) ELSE locationMap
           i == LocIndex(lm, m.locationId)
           loc == lm[i]
           standardParam == paramMapping(m.parameter)
       IN IF m.value \notin {Null, Undefined} /\ standardParam # ""
          THEN [lm EXCEPT ![i] =
                  [loc EXCEPT
                     !.measurements = SetField(loc.measurements, standardParam,
                                               [value |-> m.value, unit |-> "ug/m3",
                                                lastUpdated |-> m.datetime]),
                     !.lastUpdate = IF loc.lastUpdate = Null \/ m.datetime > loc.lastUpdate
                                    THEN m.datetime ELSE loc.lastUpdate]]
          ELSE lm

RECURSIVE GroupAll(_, _)
GroupAll(locationMap, results) ==
  IF results = <<>> THEN locationMap
  ELSE GroupAll(GroupMeasurement(locationMap, Head(results)), Tail(results))

RECURSIVE FilterPM25(_)
FilterPM25(locs) ==
  IF locs = <<>> THEN <<>>
  ELSE IF "pm25" \in DOMAIN Head(locs).measurements
  THEN <<Head(locs)>> \o FilterPM25(Tail(locs))
  ELSE FilterPM25(Tail(locs))

WithAQI(loc) ==
  LET aqi == calculateAQI(loc.measurements["pm25"].value) IN
  [id |-> loc.id, name |-> loc.name, latitude |-> loc.latitude,
   longitude |-> loc.longitude, measurements |-> loc.measurements,
   sourceType |-> loc.sourceType, lastUpdate |-> loc.lastUpdate,
   aqi |-> aqi, aqiCategory |-> getAQICategory(aqi), color |-> getAQIColor(aqi)]

\* a stable insertion of x into a sequence sorted by descending aqi
RECURSIVE InsertByAQI(_, _)
InsertByAQI(sorted, x) ==
  IF sorted = <<>> THEN <<x>>
  ELSE IF Head(sorted).aqi >= x.aqi
  THEN <<Head(sorted)>> \o InsertByAQI(Tail(sorted), x)
  ELSE <<x>> \o sorted

RECURSIVE SortByAQI(_, _)
SortByAQI(sorted, rest) ==
  IF rest = <<>> THEN sorted
  ELSE SortByAQI(InsertByAQI(sorted, Head(rest)), Tail(rest))

MaxStations == 50

\* OpenAQ /latest results
StationPayloads ==
  { <<>>,
    << Measurement(1, 238000, 904000, "pm2.5", 1200, 10),
       Measurement(1, 238000, 904000, "pm10", 3000, 20) >>,
    << Measurement(1, 238000, 904000, "pm10", 3000, 20),
       Measurement(Undefined, 238000, 904000, "pm25", 900, 20) >>,
    << Measurement(1, 238000, 904000, "pm25", 1205, 10),
       Measurement(2, 238100, 904100, "pm25", 3540, 10) >> }
StationOutcomes == Failures \cup { OkOutcome(d) : d \in StationPayloads }

\* fetchOpenAQStations after axios.get has settled
fetchOpenAQStationsSettle(o) ==
  IF o.kind = "ok" /\ Len(o.data) > 0
  THEN LET grouped == GroupAll(<<>>, o.data)
           withPM25 == FilterPM25(grouped)
           scored == [i \in 1..Len(withPM25) |-> WithAQI(withPM25[i])]
           sorted == SortByAQI(<<>>, scored)
           locations == SubSeq(sorted, 1, IF Len(sorted) < MaxStations
                                           THEN Len(sorted) ELSE MaxStations)
       IN [store |-> FALSE,
           out |-> [locations |-> locations, count |-> Len(locations),
                    source |-> "Ground monitoring stations (OpenAQ v3)",
                    isReal |-> TRUE, timestamp |-> Iso]]
  ELSE [store |-> FALSE, out |-> [locations |-> <<>>, count |-> 0]]

\* Open-Meteo air-quality "current" block
CurrentBlock(pm25, pm10, aqi) ==
  [pm2_5 |-> pm25, pm10 |-> pm10, nitrogen_dioxide |-> Undefined,
   ozone |-> Undefined, sulphur_dioxide |-> Undefined,
   carbon_monoxide |-> Undefined, us_aqi |-> aqi]

ModelPayloads == { CurrentBlock(3540, 5000, 99), CurrentBlock(1205, Undefined, 0) }
ModelOutcomes == Failures \cup { OkOutcome(d) : d \in ModelPayloads }

RECURSIVE AddPollutants(_, _, _)
\* if (x != null) location.measurements.x = { value: x, unit }
AddPollutants(measurements, names, current) ==
  IF names = <<>> THEN measurements
  ELSE LET v == current[Head(names)[1]] IN
       AddPollutants(IF v \notin {Null, Undefined}
                     THEN SetField(measurements, Head(names)[2],
                                   [value |-> v, unit |-> "ug/m3"])
                     ELSE measurements,
                     Tail(names), current)

\* fetchModelAirQuality after axios.get has settled
fetchModelAirQualitySettle(o, latitude, longitude, t) ==
  IF o.kind = "ok"
  THEN LET current == o.data
           pm25 == current.pm2_5
           modelAQI == IF Falsy(current.us_aqi) THEN calculateAQI(pm25)
                       ELSE current.us_aqi
           location ==
             [id |-> "cams_model", name |-> "CAMS Model Estimate",
              latitude |-> latitude, longitude |-> longitude,
              measurements |->
                AddPollutants(
                  SetField(NoFields, "pm25",
                           [value |-> pm25, unit |-> "ug/m3", lastUpdated |-> Iso]),
                  << <<"pm10", "pm10">>, <<"nitrogen_dioxide", "no2">>,
                     <<"ozone", "o3">>, <<"sulphur_dioxide", "so2">>,
                     <<"carbon_monoxide", "co">> >>,
                  current),
              aqi |-> modelAQI, aqiCategory |-> getAQICategory(modelAQI),
              color |-> getAQIColor(modelAQI), sourceType |-> "model"]
       IN [store |-> FALSE,
           out |-> [locations |-> <<location>>, count |-> 1,
                    source |-> "CAMS Atmospheric Model (Open-Meteo)",
                    isReal |-> TRUE,
                    note |-> "No ground monitoring stations found nearby.",
                    timestamp |-> Iso]]
  ELSE [store |-> FALSE, out |-> [isReal |-> FALSE]]

\* a gateway function without a cache of its own: throttleRequest, then axios
UncachedFetch(fn, lat, lng, t, last) ==
  LET th == throttleRequest(t, last)
  IN [call |-> NewCall(fn, lat, lng, <<fn, 0, 0>>, th, t), last |-> th.last]

fetchOpenAQStations(centerLat, centerLng, t, last) ==
  UncachedFetch("stations", centerLat, centerLng, t, last)

fetchModelAirQuality(latitude, longitude, t, last) ==
  UncachedFetch("model", latitude, longitude, t, last)

----------------------------------------------------------------------------
(* Rainfall forecast *)

\* Open-Meteo hourly block for the requested number of days, one sample a
\* day; rain (hundredths of a mm) falls on the last day or not at all
HourlyBlock(days, rain) ==
  [time |-> [d \in 1..days |-> d],
   precipitation |-> [d \in 1..days |-> IF d = days THEN rain ELSE 0],
   precipitation_probability |-> [d \in 1..days |-> IF d = days THEN 80 ELSE 10]]

Rains == {0, 250}

RECURSIVE RainyHours(_, _)
\* data.hourly.time.map(...).filter(item => item.precipitation > 0)
RainyHours(hourly, index) ==
  IF index > Len(hourly.time) THEN <<>>
  ELSE LET item == [time |-> hourly.time[index],
                    precipitation |-> hourly.precipitation[index],
                    probability |-> hourly.precipitation_probability[index]]
       IN (IF item.precipitation > 0 THEN <<item>> ELSE <<>>)
            \o RainyHours(hourly, index + 1)

RECURSIVE DailyTotals(_, _)
DailyTotals(dailyTotals, rainfallData) ==
  IF rainfallData = <<>> THEN dailyTotals
  ELSE LET item == Head(rainfallData)
           date == item.time
           before == IF date \in DOMAIN dailyTotals THEN dailyTotals[date] ELSE 0
       IN DailyTotals(SetField(dailyTotals, date, before + item.precipitation),
                      Tail(rainfallData))

RECURSIVE TotalPrecipitation(_)
TotalPrecipitation(rainfallData) ==
  IF rainfallData = <<>> THEN 0
  ELSE Head(rainfallData).precipitation + TotalPrecipitation(Tail(rainfallData))

\* getRainfallForecast after axios.get has settled: the result it caches, or
\* the exception that its catch block turns into a 500
forecastSettle(o, latitude, longitude) ==
  IF o.kind = "ok"
  THEN LET rainfallData == RainyHours(o.data, 1)
       IN [store |-> TRUE,
           out |-> [location |-> [latitude |-> latitude, longitude |-> longitude],
                    hourly |-> rainfallData,
                    dailyTotals |-> DailyTotals(NoFields, rainfallData),
                    totalPrecipitation |-> TotalPrecipitation(rainfallData),
                    source |-> "Open-Meteo API (Real forecast data)",
                    isReal |-> TRUE,
                    timestamp |-> Iso]]
  ELSE [store |-> FALSE, out |-> [thrown |-> ErrorMessage(o)]]

----------------------------------------------------------------------------
(* Endpoints.  A handler's state is where it is suspended (pc), the        *)
(* gateway calls it has made so far (calls) and its response (resp).  Each *)
(* operator below runs the handler from one point as far as it gets and    *)
(* yields that state together with the new lastRequestTime and dataCache.  *)

NoResp == [status |-> 0]

\* a request body without bounds
NoBounds == [south |-> Undefined, north |-> Undefined,
             west |-> Undefined, east |-> Undefined]

World(p, cs, rs, last, cache) ==
  [pc |-> p, calls |-> cs, resp |-> rs, last |-> last, cache |-> cache]

Json(b) == [status |-> 200, body |-> b]
Status(code, b) == [status |-> code, body |-> b]

\* as roofRespond, with the precipitation data as critical as the solar data
roofRespondStrict(b, cs, t, last, cache) ==
  LET solarData == cs[1].out
      precipData == cs[2].out
  IN IF ~solarData.isReal \/ ~precipData.isReal
     THEN World("done", cs,
                Status(503, [error |-> "Unable to fetch real NASA solar data",
                             details |-> IF "note" \in DOMAIN solarData
                                         THEN solarData.note
                                         ELSE <<"NASA POWER API unavailable">>]),
                last, cache)
     ELSE World("done", cs,
                Json([location |-> [latitude |-> b.latitude,
                                    longitude |-> b.longitude, area |-> b.area],
                      solarData |-> solarData,
                      precipData |-> precipData,
                      solarPotential |-> calculateSolarPotential(b.area, solarData),
                      rainwaterPotential |->
                        calculateRainwaterPotential(b.area, precipData),
                      timestamp |-> Iso]),
                last, cache)

\* POST /api/getRoofData, after both fetches have returned
roofRespond(b, cs, t, last, cache) ==
  LET solarData == cs[1].out
      precipData == cs[2].out
  IN IF ~solarData.isReal
     THEN World("done", cs,
                Status(503, [error |-> "Unable to fetch real NASA solar data",
                             details |-> IF "note" \in DOMAIN solarData
                                         THEN solarData.note
                                         ELSE <<"NASA POWER API unavailable">>]),
                last, cache)
     ELSE World("done", cs,
                Json([location |-> [latitude |-> b.latitude,
                                    longitude |-> b.longitude, area |-> b.area],
                      solarData |-> solarData,
                      precipData |-> precipData,
                      solarPotential |-> calculateSolarPotential(b.area, solarData),
                      rainwaterPotential |->
                        IF precipData.isReal
                        THEN calculateRainwaterPotential(b.area, precipData)
                        ELSE [error |-> "Precipitation data unavailable",
                              note |-> precipData.note],
                      timestamp |-> Iso]),
                last, cache)

\* POST /api/getRoofData, after fetchSolarData has returned
roofAfterSolar(b, cs, t, last, cache) ==
  LET f == fetchPrecipitationData(b.latitude, b.longitude, t, last, cache)
      cs2 == Append(cs, f.call)
  IN IF f.call.pc = "done"
     THEN roofRespond(b, cs2, t, f.last, cache)
     ELSE World("precip", cs2, NoResp, f.last, cache)

\* as getRoofData, validating latitude and longitude only
getRoofDataUnchecked(b, t, last, cache) ==
  IF Falsy(b.latitude) \/ Falsy(b.longitude)
  THEN World("done", <<>>,
             Status(400, [error |-> "Missing required parameters: latitude, longitude, area"]),
             last, cache)
  ELSE LET f == fetchSolarData(b.latitude, b.longitude, t, last, cache)
       IN IF f.call.pc = "done"
          THEN roofAfterSolar(b, <<f.call>>, t, f.last, cache)
          ELSE World("solar", <<f.call>>, NoResp, f.last, cache)

\* POST /api/getRoofData, from the arrival of the request
getRoofData(b, t, last, cache) ==
  IF Falsy(b.latitude) \/ Falsy(b.longitude) \/ Falsy(b.area)
  THEN World("done", <<>>,
             Status(400, [error |-> "Missing required parameters: latitude, longitude, area"]),
             last, cache)
  ELSE LET f == fetchSolarData(b.latitude, b.longitude, t, last, cache)
       IN IF f.call.pc = "done"
          THEN roofAfterSolar(b, <<f.call>>, t, f.last, cache)
          ELSE World("solar", <<f.call>>, NoResp, f.last, cache)

\* POST /api/getRainfallForecast, after axios.get has settled
forecastRespond(cs, last, cache) ==
  LET result == cs[1].out IN
  IF "thrown" \in DOMAIN result
  THEN World("done", cs,
             Status(500, [error |-> "Failed to fetch rainfall forecast",
                          details |-> result.thrown, isReal |-> FALSE]),
             last, cache)
  ELSE World("done", cs, Json(result), last, cache)

\* const { latitude, longitude, days = 3 } = req.body
DefaultDays == 3
ForecastDays(b) == IF b.days = Undefined THEN DefaultDays ELSE b.days

\* POST /api/getRainfallForecast, from the arrival of the request
getRainfallForecast(b, t, last, cache) ==
  IF Falsy(b.latitude) \/ Falsy(b.longitude)
  THEN World("done", <<>>, Status(400, [error |-> "Missing latitude or longitude"]),
             last, cache)
  ELSE LET cacheKey == getCacheKey("forecast", b.latitude, b.longitude)
           cached == getFromCache(cache, cacheKey, t)
       IN IF cached # Miss
          THEN World("done", <<HitCall("forecast", b.latitude, b.longitude, cacheKey, cached)>>,
                     Json(cached), last, cache)
          ELSE LET th == throttleRequest(t, last)
               IN World("forecast",
                        <<NewCall("forecast", b.latitude, b.longitude, cacheKey, th, t)>>,
                        NoResp, th.last, cache)

HasBounds(b) == b.bounds # NoBounds
centerLat(b) ==
  IF HasBounds(b) THEN (b.bounds.north + b.bounds.south) \div 2 ELSE b.latitude
centerLng(b) ==
  IF HasBounds(b) THEN (b.bounds.east + b.bounds.west) \div 2 ELSE b.longitude

\* POST /api/getAirQuality, after fetchModelAirQuality has returned
airAfterModel(b, cs, t, last, cache) ==
  LET modelData == cs[2].out
      cacheKey == getCacheKey("airquality", centerLat(b), centerLng(b))
  IN IF modelData.isReal
     THEN World("done", cs, Json(modelData), last,
                setCache(cache, cacheKey, modelData, t))
     ELSE World("done", cs,
                Json([locations |-> <<>>, count |-> 0, source |-> "None",
                      isReal |-> FALSE,
                      note |-> "No air quality data available.",
                      timestamp |-> Iso]),
                last, cache)

\* as airAfterStations, answering no data without asking the model
airAfterStationsNoModel(b, cs, t, last, cache) ==
  LET stationData == cs[1].out
      cacheKey == getCacheKey("airquality", centerLat(b), centerLng(b))
  IN IF Len(stationData.locations) > 0
     THEN World("done", cs, Json(stationData), last,
                setCache(cache, cacheKey, stationData, t))
     ELSE World("done", cs,
                Json([locations |-> <<>>, count |-> 0, source |-> "None",
                      isReal |-> FALSE,
                      note |-> "No air quality data available.",
                      timestamp |-> Iso]),
                last, cache)

\* POST /api/getAirQuality, after fetchOpenAQStations has returned
airAfterStations(b, cs, t, last, cache) ==
  LET stationData == cs[1].out
      cacheKey == getCacheKey("airquality", centerLat(b), centerLng(b))
  IN IF Len(stationData.locations) > 0
     THEN World("done", cs, Json(stationData), last,
                setCache(cache, cacheKey, stationData, t))
     ELSE LET f == fetchModelAirQuality(centerLat(b), centerLng(b), t, last)
          IN World("model", Append(cs, f.call), NoResp, f.last, cache)

\* POST /api/getAirQuality, from the arrival of the request
getAirQuality(b, t, last, cache) ==
  IF Falsy(centerLat(b)) \/ Falsy(centerLng(b))
  THEN World("done", <<>>,
             Status(400, [error |-> "Must provide either bounds or coordinates",
                          isReal |-> FALSE]),
             last, cache)
  ELSE LET cacheKey == getCacheKey("airquality", centerLat(b), centerLng(b))
           cached == getFromCache(cache, cacheKey, t)
       IN IF cached # Miss
          THEN World("done",
                     <<HitCall("airquality", centerLat(b), centerLng(b), cacheKey, cached)>>,
                     Json(cached), last, cache)
          ELSE LET f == fetchOpenAQStations(centerLat(b), centerLng(b), t, last)
               IN World("stations", <<f.call>>, NoResp, f.last, cache)

\* the grid of getHeatMap has (gridSize + 1) * (gridSize + 1) points
gridSize == 1

\* the grid points in the order of the two nested loops
GridPoints(bounds) ==
  LET latStep == (bounds.north - bounds.south) \div gridSize
      lngStep == (bounds.east - bounds.west) \div gridSize
  IN [k \in 1..((gridSize + 1) * (gridSize + 1)) |->
        [lat |-> bounds.south + ((k - 1) \div (gridSize + 1)) * latStep,
         lng |-> bounds.west + ((k - 1) % (gridSize + 1)) * lngStep]]

\* tenths of a degree in, thousandths out
normalizeTemperature(temp) ==
  IF temp = NaN THEN NaN
  ELSE LET x == ((temp - 200) * 1000) \div (400 - 200)
       IN IF x < 0 THEN 0 ELSE IF x > 1000 THEN 1000 ELSE x

\* as HeatPoints, the results that are real beside the first grid points
HeatPointsPacked(points, cs, k) ==
  LET real == SelectSeq(cs, LAMBDA c : c.out.isReal)
  IN [j \in 1..Len(real) |->
        [lat |-> points[j].lat, lng |-> points[j].lng,
         temperature |-> real[j].out.avgTemperature,
         intensity |-> normalizeTemperature(real[j].out.avgTemperature)]]

RECURSIVE HeatPoints(_, _, _)
\* the second pair of loops: results[pointIndex++] beside its grid point
HeatPoints(points, cs, k) ==
  IF k > Len(points) THEN <<>>
  ELSE LET tempData == cs[k].out IN
       (IF tempData.isReal
        THEN <<[lat |-> points[k].lat, lng |-> points[k].lng,
                temperature |-> tempData.avgTemperature,
                intensity |-> normalizeTemperature(tempData.avgTemperature)]>>
        ELSE <<>>)
       \o HeatPoints(points, cs, k + 1)

\* POST /api/getHeatMap, after Promise.all has resolved
heatRespond(b, cs, last, cache) ==
  LET points == GridPoints(b.bounds)
      heatPoints == HeatPoints(points, cs, 1)
  IN World("done", cs,
           Json([heatPoints |-> heatPoints,
                 bounds |-> b.bounds,
                 totalPoints |-> (gridSize + 1) * (gridSize + 1),
                 successfulPoints |-> Len(heatPoints),
                 failedPoints |-> Len(points) - Len(heatPoints),
                 dataQuality |-> IF Len(heatPoints) > 0 THEN "Real NASA POWER data"
                                 ELSE "No data available",
                 timestamp |-> Iso]),
           last, cache)

RECURSIVE HeatCalls(_, _, _, _, _)
\* the first pair of loops: fetchTemperaturePoint is started for every grid
\* point in turn, each start seeing the lastRequestTime the one before left
HeatCalls(points, k, t, last, cache) ==
  IF k > Len(points) THEN [calls |-> <<>>, last |-> last]
  ELSE LET f == fetchTemperaturePoint(points[k].lat, points[k].lng, t, last, cache)
           rest == HeatCalls(points, k + 1, t, f.last, cache)
       IN [calls |-> <<f.call>> \o rest.calls, last |-> rest.last]

AllDone(cs) == \A i \in 1..Len(cs) : cs[i].pc = "done"

\* POST /api/getHeatMap, from the arrival of the request
getHeatMap(b, t, last, cache) ==
  IF ~HasBounds(b)
  THEN World("done", <<>>, Status(400, [error |-> "Missing bounds parameter"]),
             last, cache)
  ELSE LET started == HeatCalls(GridPoints(b.bounds), 1, t, last, cache)
       IN IF AllDone(started.calls)
          THEN heatRespond(b, started.calls, started.last, cache)
          ELSE World("heat", started.calls, NoResp, started.last, cache)

\* the handler suspended at p resumes after one of its calls has returned
Resume(b, p, cs, t, last, cache) ==
  CASE p = "solar" -> roofAfterSolar(b, cs, t, last, cache)
    [] p = "precip" -> roofRespond(b, cs, t, last, cache)
    [] p = "forecast" -> forecastRespond(cs, last, cache)
    [] p = "stations" -> airAfterStations(b, cs, t, last, cache)
    [] p = "model" -> airAfterModel(b, cs, t, last, cache)
    [] p = "heat" -> IF AllDone(cs) THEN heatRespond(b, cs, last, cache)
                     ELSE World(p, cs, NoResp, last, cache)

----------------------------------------------------------------------------
(* Request bodies *)

\* two latitudes that quantise to the same cache key, and one that does not
Latitudes == {238101, 238104, 238106}
Longitude == 904125

Body(lat, lng, area, bounds, days) ==
  [latitude |-> lat, longitude |-> lng, area |-> area, bounds |-> bounds, days |-> days]

RoofBodies ==
  { Body(lat, Longitude, 1000, NoBounds, Undefined) : lat \in Latitudes }
  \cup { Body(Undefined, Longitude, 1000, NoBounds, Undefined),
         Body(238101, Longitude, Undefined, NoBounds, Undefined),
         Body(0, Longitude, 1000, NoBounds, Undefined) }

ForecastBodies ==
  { Body(238101, Longitude, Undefined, NoBounds, Undefined),
    Body(238104, Longitude, Undefined, NoBounds, 2),
    Body(238101, Undefined, Undefined, NoBounds, Undefined) }

Box(s, n, w, e) == [south |-> s, north |-> n, west |-> w, east |-> e]

\* two boxes with one centre, that centre as a point, and no location at all
AirBodies ==
  { Body(Undefined, Undefined, Undefined, Box(238000, 238200, 904000, 904200), Undefined),
    Body(Undefined, Undefined, Undefined, Box(237900, 238300, 903900, 904300), Undefined),
    Body(238100, 904100, Undefined, NoBounds, Undefined),
    Body(Undefined, Undefined, Undefined, NoBounds, Undefined) }

\* a box whose grid points have different cache keys, one whose grid points
\* share keys, and no box
HeatBodies ==
  { Body(Undefined, Undefined, Undefined, Box(238000, 238020, 904000, 904020), Undefined),
    Body(Undefined, Undefined, Undefined, Box(238000, 238004, 904000, 904020), Undefined),
    Body(Undefined, Undefined, Undefined, NoBounds, Undefined) }

----------------------------------------------------------------------------
(* The state machine *)

\* no function has been applied on its own
NoCall ==
  /\ op = "none"
  /\ arg = <<>>
  /\ ret = <<>>

\* the map page has not been opened
NoPage ==
  /\ viewport = 0
  /\ moveTimeout = FALSE
  /\ fetches = <<>>
  /\ buildings = <<>>
  /\ buildingLayers = <<>>

\* the server has started and has received no request
ServerInit ==
  /\ now = StartTime
  /\ lastRequestTime = 0
  /\ dataCache = <<>>
  /\ ep = [r \in Reqs |-> "idle"]
  /\ body = [r \in Reqs |-> Body(Undefined, Undefined, Undefined, NoBounds, Undefined)]
  /\ pc = [r \in Reqs |-> "idle"]
  /\ calls = [r \in Reqs |-> <<>>]
  /\ resp = [r \in Reqs |-> NoResp]
  /\ after = [r \in Reqs |-> {}]

Init ==
  /\ NoCall
  /\ NoPage
  /\ ServerInit

\* the handler of request r has run from its start and left the state w
Arrive(r, e, b, w) ==
  /\ ep' = [ep EXCEPT ![r] = e]
  /\ body' = [body EXCEPT ![r] = b]
  /\ pc' = [pc EXCEPT ![r] = w.pc]
  /\ calls' = [calls EXCEPT ![r] = w.calls]
  /\ resp' = [resp EXCEPT ![r] = w.resp]
  /\ lastRequestTime' = w.last
  /\ dataCache' = w.cache
  /\ after' = [after EXCEPT ![r] = {q \in Reqs : pc[q] = "done"}]
  /\ UNCHANGED <<now, callVars, pageVars>>

\* requests are numbered in the order they arrive; a getHeatMap request,
\* with its whole grid of concurrent calls, is the only request of its run
MayArrive(r) ==
  /\ pc[r] = "idle"
  /\ \A q \in Reqs : q < r => pc[q] # "idle"
  /\ \A q \in Reqs : ep[q] # "heat"

RoofRequest(r) ==
  /\ MayArrive(r)
  /\ \E b \in RoofBodies :
       Arrive(r, "roof", b, getRoofData(b, now, lastRequestTime, dataCache))

\* the timer of throttleRequest fires for call i of request r: the call
\* stamps lastRequestTime and issues its upstream request
ThrottleWake(r, i) ==
  /\ i \in 1..Len(calls[r])
  /\ calls[r][i].pc = "waiting"
  /\ now >= calls[r][i].wake
  /\ lastRequestTime' = now
  /\ calls' = [calls EXCEPT ![r][i].pc = "inflight", ![r][i].sentAt = now,
                             ![r][i].wake = 0]
  /\ UNCHANGED <<now, dataCache, ep, body, pc, resp, after, callVars, pageVars>>

ForecastRequest(r) ==
  /\ MayArrive(r)
  /\ \E b \in ForecastBodies :
       Arrive(r, "forecast", b, getRainfallForecast(b, now, lastRequestTime, dataCache))

AirRequest(r) ==
  /\ MayArrive(r)
  /\ \E b \in AirBodies :
       Arrive(r, "air", b, getAirQuality(b, now, lastRequestTime, dataCache))

HeatRequest(r) ==
  /\ MayArrive(r)
  /\ \A q \in Reqs : pc[q] = "idle"
  /\ \E b \in HeatBodies :
       Arrive(r, "heat", b, getHeatMap(b, now, lastRequestTime, dataCache))

\* what the upstream of call c can answer; the forecast provider answers
\* for the number of days it was asked for
OutcomesOf(c, b) ==
  CASE c.fn \in {"solar", "temp"} -> NasaOutcomes
    [] c.fn = "precip" -> PrecipOutcomes
    [] c.fn = "stations" -> StationOutcomes
    [] c.fn = "model" -> ModelOutcomes
    [] c.fn = "forecast" ->
         Failures \cup { OkOutcome(HourlyBlock(ForecastDays(b), rain)) : rain \in Rains }

SettleOf(c, o, t) ==
  CASE c.fn = "solar" -> fetchSolarDataSettle(o)
    [] c.fn = "temp" -> fetchTemperaturePointSettle(o)
    [] c.fn = "precip" -> fetchPrecipitationDataSettle(o, t)
    [] c.fn = "stations" -> fetchOpenAQStationsSettle(o)
    [] c.fn = "model" -> fetchModelAirQualitySettle(o, c.lat, c.lng, t)
    [] c.fn = "forecast" -> forecastSettle(o, c.lat, c.lng)

\* the upstream request of call i of request r settles with outcome o
UpstreamSettle(r, i) ==
  /\ i \in 1..Len(calls[r])
  /\ calls[r][i].pc = "inflight"
  /\ \E o \in OutcomesOf(calls[r][i], body[r]) :
       LET c == calls[r][i]
           s == SettleOf(c, o, now)
           cache1 == IF s.store THEN setCache(dataCache, c.key, s.out, now)
                     ELSE dataCache
           cs == [calls[r] EXCEPT ![i].pc = "done", ![i].out = s.out,
                                  ![i].outcome = IF o.kind = "ok" THEN "ok" ELSE "failed"]
           w == Resume(body[r], pc[r], cs, now, lastRequestTime, cache1)
       IN /\ pc' = [pc EXCEPT ![r] = w.pc]
          /\ calls' = [calls EXCEPT ![r] = w.calls]
          /\ resp' = [resp EXCEPT ![r] = w.resp]
          /\ lastRequestTime' = w.last
          /\ dataCache' = w.cache
  /\ UNCHANGED <<now, ep, body, after, callVars, pageVars>>

TickUnit == MIN_REQUEST_INTERVAL \div 2

\* the clock advances by d; a timer that is due fires before it advances
Advance(d) ==
  /\ \A r \in Reqs : \A i \in 1..Len(calls[r]) :
        calls[r][i].pc = "waiting" => now + d <= calls[r][i].wake
  /\ now' = now + d
  /\ UNCHANGED <<lastRequestTime, dataCache, ep, body, pc, calls, resp, after,
                 callVars, pageVars>>

Tick ==
  /\ (now - StartTime) % CACHE_DURATION < MaxTicks * TickUnit
  /\ Advance(TickUnit)

\* a day passes
NextDay ==
  /\ now - StartTime < CACHE_DURATION
  /\ Advance(CACHE_DURATION)

MaxCalls == (gridSize + 1) * (gridSize + 1)

Next ==
  \/ \E r \in Reqs : RoofRequest(r)
  \/ \E r \in Reqs : HeatRequest(r)
  \/ \E r \in Reqs : ForecastRequest(r)
  \/ \E r \in Reqs : AirRequest(r)
  \/ \E r \in Reqs : \E i \in 1..MaxCalls : ThrottleWake(r, i)
  \/ \E r \in Reqs : \E i \in 1..MaxCalls : UpstreamSettle(r, i)
  \/ Tick
  \/ NextDay

Spec == Init /\ [][Next]_vars

----------------------------------------------------------------------------
(* The cache on its own: any sequence of setCache and getFromCache calls,  *)
(* with any keys, as the clock advances                                     *)

CacheTypes5 == {"solar", "temp", "precip", "forecast", "airquality"}
CacheKeys == { getCacheKey(type, 238101, Longitude) : type \in CacheTypes5 }

\* the entries of cache whose key cache2 no longer holds
Evicted(cache, cache2) ==
  SelectSeq(cache, LAMBDA e : \A i \in 1..Len(cache2) : cache2[i].key # e.key)

\* setCache(key, data); the result recorded is history: the entries that
\* the call has removed
CacheSet(key) ==
  /\ dataCache' = setCache(dataCache, key, [fetchedAt |-> now], now)
  /\ op' = "setCache"
  /\ arg' = key
  /\ ret' = Evicted(dataCache, dataCache')
  /\ UNCHANGED <<now, lastRequestTime, ep, body, pc, calls, resp, after, pageVars>>

\* getFromCache(key)
CacheGet(key) ==
  /\ op' = "getFromCache"
  /\ arg' = key
  /\ ret' = getFromCache(dataCache, key, now)
  /\ UNCHANGED <<serverVars, pageVars>>

CacheNext ==
  \/ \E key \in CacheKeys : CacheSet(key)
  \/ \E key \in CacheKeys : CacheGet(key)
  \/ Tick
  \/ NextDay

CacheSpec == Init /\ [][CacheNext]_vars

----------------------------------------------------------------------------
(* The cluster builder of the map page (App.js).  Centroids are in 1e-4   *)
(* degree, areas in m2.                                                     *)

Building(id, lat, lng, area) ==
  [id |-> id, area |-> area, centroid |-> [lat |-> lat, lng |-> lng]]

\* distance < maxDistance, both sides squared
Near(building, other, maxDistance) ==
  (building.centroid.lat - other.centroid.lat) * (building.centroid.lat - other.centroid.lat)
    + (building.centroid.lng - other.centroid.lng) * (building.centroid.lng - other.centroid.lng)
    < maxDistance * maxDistance

RECURSIVE SeqOfSet(_)
\* the indices of a set in ascending order, as forEach visits them
SeqOfSet(S) ==
  IF S = {} THEN <<>>
  ELSE LET m == CHOOSE x \in S : \A y \in S : x <= y
       IN <<m>> \o SeqOfSet(S \ {m})

MaxOf(S) == CHOOSE x \in S : \A y \in S : y <= x
MinOf(S) == CHOOSE x \in S : \A y \in S : x <= y

\* as ClusterAround, the inner forEach not skipping the visited buildings
ClusterAroundVisited(buildingsData, idx, visited, maxDistance) ==
  LET others == { otherIdx \in 1..Len(buildingsData) :
                    /\ otherIdx # idx
                    /\ Near(buildingsData[idx], buildingsData[otherIdx], maxDistance) }
      indices == <<idx>> \o SeqOfSet(others)
      lats == { buildingsData[i].centroid.lat : i \in others \cup {idx} }
      lngs == { buildingsData[i].centroid.lng : i \in others \cup {idx} }
  IN [buildings |-> [k \in 1..Len(indices) |-> buildingsData[indices[k]]],
      indices |-> indices,
      areaKm2 |-> (MaxOf(lats) - MinOf(lats)) * (MaxOf(lngs) - MinOf(lngs)) * 111 * 111]

\* the cluster that the outer forEach builds around building idx: areaKm2
\* is latRange * lngRange * 111 * 111, in units of 1e-8 km2
ClusterAround(buildingsData, idx, visited, maxDistance) ==
  LET others == { otherIdx \in 1..Len(buildingsData) :
                    /\ otherIdx \notin visited \cup {idx}
                    /\ Near(buildingsData[idx], buildingsData[otherIdx], maxDistance) }
      indices == <<idx>> \o SeqOfSet(others)
      lats == { buildingsData[i].centroid.lat : i \in others \cup {idx} }
      lngs == { buildingsData[i].centroid.lng : i \in others \cup {idx} }
  IN [buildings |-> [k \in 1..Len(indices) |-> buildingsData[indices[k]]],
      indices |-> indices,
      areaKm2 |-> (MaxOf(lats) - MinOf(lats)) * (MaxOf(lngs) - MinOf(lngs)) * 111 * 111]

RECURSIVE ClusterScan(_, _, _, _, _, _)
\* the outer forEach from building idx on; a cluster is kept when it has at
\* least minSize buildings
ClusterScan(buildingsData, maxDistance, minSize, idx, visited, clusters) ==
  IF idx > Len(buildingsData) THEN clusters
  ELSE IF idx \in visited
  THEN ClusterScan(buildingsData, maxDistance, minSize, idx + 1, visited, clusters)
  ELSE LET cluster == ClusterAround(buildingsData, idx, visited, maxDistance)
           seen == visited \cup { cluster.indices[k] : k \in 1..Len(cluster.indices) }
       IN ClusterScan(buildingsData, maxDistance, minSize, idx + 1, seen,
                      IF Len(cluster.buildings) >= minSize
                      THEN Append(clusters, cluster)
                      ELSE clusters)

\* as identifyBuildingClusters, keeping the clusters of two buildings too
identifyBuildingClustersPairs(buildingsData, maxDistance) ==
  ClusterScan(buildingsData, maxDistance, 2, 1, {}, <<>>)

identifyBuildingClusters(buildingsData, maxDistance) ==
  ClusterScan(buildingsData, maxDistance, 3, 1, {}, <<>>)

----------------------------------------------------------------------------
(* The grid passes: renderCombinedUHI, renderPriorityZones and             *)
(* analyzeGridCell of the earlier map page (src/unnamed/part_000) and the  *)
(* density map of the server.  The cell size, the gridSize of the code, is *)
(* in 1e-4 degree; scores are in thousandths, temperatures in tenths of a  *)
(* degree; a quotient is cut to a whole number of its unit.                *)

Min(a, b) == IF a < b THEN a ELSE b
Max(a, b) == IF a > b THEN a ELSE b

\* the value of null in arithmetic is 0
NumOf(v) == IF v = Null THEN 0 ELSE v

RECURSIVE Steps(_, _, _)
\* for (let x = from; x < to; x += step): the values of x
Steps(from, to, step) ==
  IF from < to THEN <<from>> \o Steps(from + step, to, step) ELSE <<>>

\* the cells in the order of the two nested loops
GridCells(bounds, cellSize) ==
  LET lats == Steps(bounds.south, bounds.north, cellSize)
      lngs == Steps(bounds.west, bounds.east, cellSize)
  IN [k \in 1..(Len(lats) * Len(lngs)) |->
        [lat |-> lats[((k - 1) \div Len(lngs)) + 1],
         lng |-> lngs[((k - 1) % Len(lngs)) + 1]]]

\* as buildingsInCell, the north and the east edge of the cell included
buildingsInCellClosed(buildingsData, lat, lng, cellSize) ==
  SelectSeq(buildingsData,
            LAMBDA b : /\ b.centroid.lat >= lat /\ b.centroid.lat <= lat + cellSize
                       /\ b.centroid.lng >= lng /\ b.centroid.lng <= lng + cellSize)

\* buildingsData.filter(b => b.centroid.lat >= lat && ...)
buildingsInCell(buildingsData, lat, lng, cellSize) ==
  SelectSeq(buildingsData,
            LAMBDA b : /\ b.centroid.lat >= lat /\ b.centroid.lat < lat + cellSize
                       /\ b.centroid.lng >= lng /\ b.centroid.lng < lng + cellSize)

RECURSIVE TotalArea(_)
TotalArea(bs) == IF bs = <<>> THEN 0 ELSE Head(bs).area + TotalArea(Tail(bs))

\* Math.cos(lat * Math.PI / 180) in thousandths, at the latitudes of the
\* model (23.8 degrees)
CosOf(lat) == 915

\* (cellSize * 111000) * (cellSize * 111000 * Math.cos(...)) in m2
cellAreaM2(lat, cellSize) ==
  (((cellSize * 111) \div 10) * ((cellSize * 111) \div 10) * CosOf(lat)) \div 1000

\* Math.min(totalBuildingArea / cellAreaM2, 1)
DensityRatio(bs, lat, cellSize) ==
  Min((TotalArea(bs) * 1000) \div cellAreaM2(lat, cellSize), 1000)

\* fetchRealNASATemperature answers null when the request fails, when the
\* answer is not ok and when the data is not real: the soft failure
NoData == [isReal |-> FALSE, avgTemperature |-> Null]

\* and the data of NASA otherwise
NasaData(avgTemperature) == [isReal |-> TRUE, avgTemperature |-> avgTemperature]

\* tempData && tempData.isReal && tempData.avgTemperature
Usable(tempData) ==
  tempData # NoData /\ tempData.isReal /\ ~Falsy(tempData.avgTemperature)

\* null in the place of a point, and in the place of the result of a cell
NoPoint == <<>>
NoResult == [lat |-> Null, lng |-> Null, priorityScore |-> Null, buildingCount |-> Null]

\* the sub-scores of one cell of renderCombinedUHI and their composite
uhiScores(lat, lng, cellSize, buildingsData, tempData) ==
  LET buildingDensity ==
        DensityRatio(buildingsInCell(buildingsData, lat, lng, cellSize), lat, cellSize)
      greenSpaceDeficit == IF buildingDensity > 300 THEN 1000 - buildingDensity ELSE 0
      nasaTempScore == IF Usable(tempData)
                       THEN normalizeTemperature(tempData.avgTemperature) ELSE 0
  IN [nasaTempScore |-> nasaTempScore,
      buildingDensity |-> buildingDensity,
      greenSpaceDeficit |-> greenSpaceDeficit,
      combinedUHI |-> (nasaTempScore * 5 + buildingDensity * 3 + greenSpaceDeficit * 2)
                        \div 10]

\* the promise of one cell of renderCombinedUHI: a point or null
uhiCell(lat, lng, cellSize, buildingsData, tempData) ==
  IF Usable(tempData)
  THEN <<lat, lng, uhiScores(lat, lng, cellSize, buildingsData, tempData).combinedUHI,
         tempData.avgTemperature>>
  ELSE NoPoint

\* gridSize = zoom >= 17 ? 0.002 : zoom >= 15 ? 0.004 : 0.008
uhiCellSize(zoom) == IF zoom >= 17 THEN 20 ELSE IF zoom >= 15 THEN 40 ELSE 80

\* results.filter(point => point !== null)
NotNull(results) == SelectSeq(results, LAMBDA point : point # NoPoint)

\* renderCombinedUHI over the viewport bounds, the climate query of cell k
\* answering climate[k]: the heat points
renderCombinedUHI(bounds, zoom, buildingsData, climate) ==
  LET cells == GridCells(bounds, uhiCellSize(zoom))
      results == [k \in 1..Len(cells) |->
                    uhiCell(cells[k].lat, cells[k].lng, uhiCellSize(zoom),
                            buildingsData, climate[k])]
      validHeatPoints == NotNull(results)
  IN [k \in 1..Len(validHeatPoints) |->
        <<validHeatPoints[k][1], validHeatPoints[k][2], validHeatPoints[k][3]>>]

\* as gridCellScores, the heat score not held between 0 and 1
gridCellScoresUnclamped(lat, lng, cellSize, buildingsData, nasaData) ==
  LET buildingsInZone == buildingsInCell(buildingsData, lat, lng, cellSize)
      buildingDensityRatio == DensityRatio(buildingsInZone, lat, cellSize)
      densityScore == Min((Len(buildingsInZone) * 1000) \div 8, 1000)
      heatScore == IF Usable(nasaData)
                   THEN ((nasaData.avgTemperature - 260) * 1000) \div 120
                   ELSE 0
      greenDeficit == IF buildingDensityRatio > 400
                      THEN ((buildingDensityRatio - 400) * 1000) \div 600 ELSE 0
      largeRoofs == SelectSeq(buildingsInZone, LAMBDA b : b.area > 500)
      rooftopPotentialScore == Min((Len(largeRoofs) * 1000) \div 3, 1000)
  IN [heatScore |-> heatScore,
      densityScore |-> densityScore,
      greenDeficit |-> greenDeficit,
      rooftopPotentialScore |-> rooftopPotentialScore,
      buildingCount |-> Len(buildingsInZone),
      priorityScore |-> (heatScore * 35 + densityScore * 25 + greenDeficit * 25
                           + rooftopPotentialScore * 15) \div 100]

\* the sub-scores of analyzeGridCell and their composite
gridCellScores(lat, lng, cellSize, buildingsData, nasaData) ==
  LET buildingsInZone == buildingsInCell(buildingsData, lat, lng, cellSize)
      buildingDensityRatio == DensityRatio(buildingsInZone, lat, cellSize)
      densityScore == Min((Len(buildingsInZone) * 1000) \div 8, 1000)
      heatScore == IF Usable(nasaData)
                   THEN Min(Max(((nasaData.avgTemperature - 260) * 1000) \div 120, 0), 1000)
                   ELSE 0
      greenDeficit == IF buildingDensityRatio > 400
                      THEN ((buildingDensityRatio - 400) * 1000) \div 600 ELSE 0
      largeRoofs == SelectSeq(buildingsInZone, LAMBDA b : b.area > 500)
      rooftopPotentialScore == Min((Len(largeRoofs) * 1000) \div 3, 1000)
  IN [heatScore |-> heatScore,
      densityScore |-> densityScore,
      greenDeficit |-> greenDeficit,
      rooftopPotentialScore |-> rooftopPotentialScore,
      buildingCount |-> Len(buildingsInZone),
      priorityScore |-> (heatScore * 35 + densityScore * 25 + greenDeficit * 25
                           + rooftopPotentialScore * 15) \div 100]

analyzeGridCell(lat, lng, cellSize, buildingsData, nasaData) ==
  LET f == gridCellScores(lat, lng, cellSize, buildingsData, nasaData)
  IN IF f.priorityScore > 300 /\ f.buildingCount > 2
     THEN [lat |-> lat + cellSize \div 2, lng |-> lng + cellSize \div 2,
           priorityScore |-> f.priorityScore, buildingCount |-> f.buildingCount]
     ELSE NoResult

\* const gridSize = 0.003 of renderPriorityZones
priorityCellSize == 30

\* renderPriorityZones of the earlier page over the viewport bounds: the
\* heat points
renderPriorityZones(bounds, buildingsData, climate) ==
  LET cells == GridCells(bounds, priorityCellSize)
      results == [k \in 1..Len(cells) |->
                    analyzeGridCell(cells[k].lat, cells[k].lng, priorityCellSize,
                                    buildingsData, climate[k])]
      kept == SelectSeq(results, LAMBDA result : result # NoResult /\ result.priorityScore > 300)
  IN [k \in 1..Len(kept) |-> <<kept[k].lat, kept[k].lng, kept[k].priorityScore>>]

\* const gridSize = 0.002 of /api/getBuildingDensityMap
densityCellSize == 20

\* POST /api/getBuildingDensityMap: the density points
getBuildingDensityMap(bounds, buildingsData) ==
  LET cells == GridCells(bounds, densityCellSize)
      zones == [k \in 1..Len(cells) |->
                  [lat |-> cells[k].lat + densityCellSize \div 2,
                   lng |-> cells[k].lng + densityCellSize \div 2,
                   density |-> Len(buildingsInCell(buildingsData, cells[k].lat,
                                                   cells[k].lng, densityCellSize))]]
      kept == SelectSeq(zones, LAMBDA z : z.density > 0
                                           /\ Min((z.density * 1000) \div 20, 1000) > 50)
  IN [k \in 1..Len(kept) |->
        <<kept[k].lat, kept[k].lng, Min((kept[k].density * 1000) \div 20, 1000)>>]

\* the scores of one cluster in renderPriorityZones of App.js, the baseline
\* temperature being baselineTemp.avgTemperature; areaKm2 is in 1e-8 km2
clusterScores(cluster, avgTemperature) ==
  LET totalArea == TotalArea(cluster.buildings)
      buildingCount == Len(cluster.buildings)
      avgBuildingSize == totalArea \div buildingCount
      largeRoofs == Len(SelectSeq(cluster.buildings, LAMBDA b : b.area > 500))
      clusterAreaKm2 == IF cluster.areaKm2 = 0 THEN 1000000 ELSE cluster.areaKm2
      \* buildingDensity = buildingCount * 1000000 / clusterAreaKm2 per hectare
      densityFactor == Min((buildingCount * 20000000) \div clusterAreaKm2, 1000)
      sizeFactor == Min(avgBuildingSize, 1000)
      estimatedHeatAdjustment == (densityFactor * 20 + sizeFactor * 30) \div 1000
      clusterTemp == NumOf(avgTemperature) + estimatedHeatAdjustment
      heatRisk == Min(Max((clusterTemp - 280) * 10, 0), 1000)
      densityRisk == Min((buildingCount * 12500000) \div clusterAreaKm2, 1000)
      greenDeficit == densityRisk
      rooftopPotential == Min((largeRoofs * 1000) \div 5, 1000)
  IN [heat |-> heatRisk, density |-> densityRisk, green |-> greenDeficit,
      rooftop |-> rooftopPotential,
      overall |-> (heatRisk * 35 + densityRisk * 25 + greenDeficit * 25
                     + rooftopPotential * 15) \div 100]

----------------------------------------------------------------------------
(* Functions applied on their own to inputs drawn from bounded sets *)

\* PM2.5 values up to MaxPM25, in hundredths, every PMStep hundredths, and
\* what is not a number
MaxPM25 == 60000
PMStep == 5
AQIInputs ==
  { [fn |-> "calculateAQI", pm25 |-> x] :
      x \in { PMStep * k : k \in 0..(MaxPM25 \div PMStep) }
             \cup {-100, Undefined, Null, NaN} }

SolarInputs ==
  { [fn |-> "calculateSolarPotential", area |-> a,
     solarData |-> [avgIrradiance |-> i, isReal |-> real]] :
      a \in {0, 1, 3, 7, 150, 1000}, i \in {0, 1, 38, 52, 64, Null},
      real \in BOOLEAN }

\* lists of up to MaxBuildings buildings on a few points: three in a row
\* 0.001 apart, one 0.002 further, one off the row
MaxBuildings == 4
ClusterPoints == {<<0, 0>>, <<10, 0>>, <<20, 0>>, <<40, 0>>, <<5, 12>>}
BuildingLists(points, areas, n) ==
  UNION { { [k \in 1..m |-> Building(k, 238100 + f[k][1][1], 904100 + f[k][1][2], f[k][2])] :
              f \in [1..m -> points \X areas] } : m \in 0..n }
maxDistance == 15
ClusterInputs ==
  { [fn |-> "identifyBuildingClusters", buildings |-> bs, maxDistance |-> maxDistance] :
      bs \in BuildingLists(ClusterPoints, {120}, MaxBuildings) }

\* the cell size of each grid pass
CellSizeOf(fn, zoom) ==
  CASE fn = "renderCombinedUHI" -> uhiCellSize(zoom)
    [] fn = "renderPriorityZones" -> priorityCellSize
    [] fn = "getBuildingDensityMap" -> densityCellSize

\* the zoom levels of the three cell sizes of renderCombinedUHI, one level
\* for the passes with one cell size
ZoomsOf(fn) == IF fn = "renderCombinedUHI" THEN {13, 15, 17} ELSE {17}

GridFns == {"renderCombinedUHI", "renderPriorityZones", "getBuildingDensityMap"}

\* each pass with its zoom levels and the half of its cell size
GridKinds ==
  UNION { { <<fn, zoom, CellSizeOf(fn, zoom) \div 2>> : zoom \in ZoomsOf(fn) } :
            fn \in GridFns }

\* the number of cells of a pass
NumCells(fn, zoom, bounds) == Len(GridCells(bounds, CellSizeOf(fn, zoom)))

\* a box of latN by lngN half cells with its south-west corner on the map
\* centre
CellBox(h, latN, lngN) == Box(238100, 238100 + latN * h, 904100, 904100 + lngN * h)

\* up to two buildings on and around the edges of the cells of boxes of one
\* cell, of two cells and of a cell and a half, every climate query
\* answering 30.0 degrees
EdgeInputs ==
  UNION { { [fn |-> fn, zoom |-> z, bounds |-> CellBox(h, latN, lngN), buildings |-> bs,
             climate |-> [k \in 1..NumCells(fn, z, CellBox(h, latN, lngN)) |-> NasaData(300)]] :
              latN \in {2, 3, 4}, lngN \in {2, 4},
              bs \in BuildingLists({-1, 0, 2 * h - 1, 2 * h, 3 * h, 4 * h - 1, 4 * h}
                                     \X {0, 2 * h, 4 * h - 1}, {120}, 2) } :
            <<fn, z, h>> \in GridKinds }

\* the answers of the climate queries of n cells
Climates(n) == [1..n -> {NoData, NasaData(Null), NasaData(300), NasaData(450)}]

\* up to MaxBuildings small, large and very large buildings in the first of
\* two cells, every answer of the two climate queries
ScoreInputs ==
  { [fn |-> fn, zoom |-> 17, bounds |-> CellBox(CellSizeOf(fn, 17) \div 2, 2, 4),
     buildings |-> bs, climate |-> c] :
      fn \in {"renderCombinedUHI", "renderPriorityZones"},
      bs \in BuildingLists({<<5, 5>>}, {120, 600, 40000}, MaxBuildings),
      c \in Climates(2) }

\* the clusters of up to MaxBuildings buildings of three sizes on two
\* points 0.001 apart, and the baseline temperatures
ClusterScoreInputs ==
  { [fn |-> "clusterScores", buildings |-> bs, avgTemperature |-> t] :
      bs \in BuildingLists({<<0, 0>>, <<10, 0>>}, {120, 600, 40000}, MaxBuildings),
      t \in {Null, 0, 250, 300, 450} }

Range(sq) == { sq[i] : i \in 1..Len(sq) }

\* what a pass has done in cell k: the buildings it has counted there, the
\* answer of its climate query and its scores
CellTrace(fn, cell, cellSize, buildingsData, tempData) ==
  [lat |-> cell.lat, lng |-> cell.lng,
   counted |-> { b.id : b \in Range(buildingsInCell(buildingsData, cell.lat, cell.lng,
                                                     cellSize)) },
   tempData |-> tempData,
   scores |-> CASE fn = "renderCombinedUHI" ->
                     uhiScores(cell.lat, cell.lng, cellSize, buildingsData, tempData)
                [] fn = "renderPriorityZones" ->
                     gridCellScores(cell.lat, cell.lng, cellSize, buildingsData, tempData)
                [] OTHER -> <<>>]

GridPass(a) ==
  LET cellSize == CellSizeOf(a.fn, a.zoom)
      cells == GridCells(a.bounds, cellSize)
  IN [points |-> CASE a.fn = "renderCombinedUHI" ->
                        renderCombinedUHI(a.bounds, a.zoom, a.buildings, a.climate)
                   [] a.fn = "renderPriorityZones" ->
                        renderPriorityZones(a.bounds, a.buildings, a.climate)
                   [] a.fn = "getBuildingDensityMap" ->
                        getBuildingDensityMap(a.bounds, a.buildings),
      cells |-> [k \in 1..Len(cells) |->
                   CellTrace(a.fn, cells[k], cellSize, a.buildings, a.climate[k])]]

ApplyRenderCombinedUHI ==
  /\ op = "none" /\ arg.fn = "renderCombinedUHI"
  /\ op' = arg.fn
  /\ ret' = GridPass(arg)
  /\ UNCHANGED <<arg, serverVars, pageVars>>

ApplyRenderPriorityZones ==
  /\ op = "none" /\ arg.fn = "renderPriorityZones"
  /\ op' = arg.fn
  /\ ret' = GridPass(arg)
  /\ UNCHANGED <<arg, serverVars, pageVars>>

ApplyGetBuildingDensityMap ==
  /\ op = "none" /\ arg.fn = "getBuildingDensityMap"
  /\ op' = arg.fn
  /\ ret' = GridPass(arg)
  /\ UNCHANGED <<arg, serverVars, pageVars>>

\* the clusters of the buildings, each with its scores
ApplyClusterScores ==
  /\ op = "none" /\ arg.fn = "clusterScores"
  /\ op' = arg.fn
  /\ ret' = LET clusters == identifyBuildingClusters(arg.buildings, maxDistance)
            IN [k \in 1..Len(clusters) |->
                  clusterScores(clusters[k], arg.avgTemperature)]
  /\ UNCHANGED <<arg, serverVars, pageVars>>

ApplyCalculateAQI ==
  /\ op = "none" /\ arg.fn = "calculateAQI"
  /\ op' = arg.fn
  /\ ret' = calculateAQI(arg.pm25)
  /\ UNCHANGED <<arg, serverVars, pageVars>>

ApplyCalculateSolarPotential ==
  /\ op = "none" /\ arg.fn = "calculateSolarPotential"
  /\ op' = arg.fn
  /\ ret' = calculateSolarPotential(arg.area, arg.solarData)
  /\ UNCHANGED <<arg, serverVars, pageVars>>

ApplyIdentifyBuildingClusters ==
  /\ op = "none" /\ arg.fn = "identifyBuildingClusters"
  /\ op' = arg.fn
  /\ ret' = identifyBuildingClusters(arg.buildings, arg.maxDistance)
  /\ UNCHANGED <<arg, serverVars, pageVars>>

\* calculateCentroid of the map page: the mean of the nodes
RECURSIVE SumLat(_)
SumLat(nodes) == IF nodes = <<>> THEN 0 ELSE Head(nodes).lat + SumLat(Tail(nodes))
RECURSIVE SumLon(_)
SumLon(nodes) == IF nodes = <<>> THEN 0 ELSE Head(nodes).lon + SumLon(Tail(nodes))

calculateCentroid(nodes) ==
  IF nodes = <<>> THEN [lat |-> 0, lng |-> 0]
  ELSE [lat |-> SumLat(nodes) \div Len(nodes), lng |-> SumLon(nodes) \div Len(nodes)]

\* the ring of the square with south-west corner (lat, lng) and the given
\* side, from its corner number first on, counter-clockwise; a closed ring
\* repeats its first node as its last, as the geometry of a way does
Corner(lat, lng, side, n) ==
  [lat |-> lat + (IF n % 4 \in {2, 3} THEN side ELSE 0),
   lon |-> lng + (IF n % 4 \in {1, 2} THEN side ELSE 0)]
SquareRing(lat, lng, side, first, closed) ==
  [k \in 1..(IF closed THEN 5 ELSE 4) |-> Corner(lat, lng, side, first + k - 1)]

\* squares on a grid of 0.002 degree, whose sums of four and of five nodes
\* divide without remainder
RingSides == {20, 40}
CentroidInputs ==
  { [fn |-> "calculateCentroid",
     nodes |-> SquareRing(238100 + dlat, 904100 + dlng, side, first, closed),
     closed |-> closed] :
      dlat \in {0, 20, 100}, dlng \in {0, 40}, side \in RingSides,
      first \in 0..3, closed \in BOOLEAN }

ApplyCalculateCentroid ==
  /\ op = "none" /\ arg.fn = "calculateCentroid"
  /\ op' = arg.fn
  /\ ret' = calculateCentroid(arg.nodes)
  /\ UNCHANGED <<arg, serverVars, pageVars>>

CalcInit ==
  /\ ServerInit
  /\ NoPage
  /\ op = "none"
  /\ ret = <<>>
  /\ \/ arg \in AQIInputs
     \/ arg \in SolarInputs
     \/ arg \in ClusterInputs
     \/ arg \in EdgeInputs
     \/ arg \in ScoreInputs
     \/ arg \in ClusterScoreInputs
     \/ arg \in CentroidInputs

CalcNext ==
  \/ ApplyCalculateAQI
  \/ ApplyCalculateSolarPotential
  \/ ApplyIdentifyBuildingClusters
  \/ ApplyRenderCombinedUHI
  \/ ApplyRenderPriorityZones
  \/ ApplyGetBuildingDensityMap
  \/ ApplyClusterScores
  \/ ApplyCalculateCentroid

CalcSpec == CalcInit /\ [][CalcNext]_vars

----------------------------------------------------------------------------
(* throttleRequest on its own, called again only after it has returned.    *)
(* op is "throttleRequest" while a call sleeps, arg is the call (when it   *)
(* started, when its timer fires), ret the history of the returns: when    *)
(* the last call returned, when the one before did, how long the last call *)
(* slept.                                                                  *)

MaxThrottleTime == 3000
ThrottleSteps == {100, TickUnit, 3 * TickUnit}

NoReturn == [returned |-> Never, previous |-> Never, waited |-> 0]

ThrottleInit ==
  /\ ServerInit
  /\ NoPage
  /\ op = "none"
  /\ arg = <<>>
  /\ ret = NoReturn

\* a call of throttleRequest, up to its return or to its await
ThrottleCall ==
  /\ op = "none"
  /\ LET th == throttleRequest(now, lastRequestTime) IN
     IF th.pc = "waiting"
     THEN /\ op' = "throttleRequest"
          /\ arg' = [start |-> now, wake |-> th.wake]
          /\ UNCHANGED <<ret, lastRequestTime>>
     ELSE /\ lastRequestTime' = th.last
          /\ ret' = [returned |-> now, previous |-> ret.returned, waited |-> 0]
          /\ UNCHANGED <<op, arg>>
  /\ UNCHANGED <<now, dataCache, ep, body, pc, calls, resp, after, pageVars>>

\* the timer of the sleeping call fires: lastRequestTime = Date.now() and
\* the call returns
ThrottleReturn ==
  /\ op = "throttleRequest"
  /\ now >= arg.wake
  /\ lastRequestTime' = now
  /\ ret' = [returned |-> now, previous |-> ret.returned, waited |-> now - arg.start]
  /\ op' = "none"
  /\ arg' = <<>>
  /\ UNCHANGED <<now, dataCache, ep, body, pc, calls, resp, after, pageVars>>

\* the clock advances, to the moment the timer is due at most
ThrottleTick ==
  /\ now - StartTime < MaxThrottleTime
  /\ \E d \in ThrottleSteps :
       /\ op = "throttleRequest" => now + d <= arg.wake
       /\ now' = now + d
  /\ UNCHANGED <<lastRequestTime, dataCache, ep, body, pc, calls, resp, after,
                 callVars, pageVars>>

ThrottleNext ==
  \/ ThrottleCall
  \/ ThrottleReturn
  \/ ThrottleTick

ThrottleSpec == ThrottleInit /\ [][ThrottleNext]_vars

----------------------------------------------------------------------------
(* The map page of App.js: the moveend handler of initMap and the runs of  *)
(* fetchBuildings.  A viewport is numbered in the order the user moves to  *)
(* it, 0 before the map exists.  A run of fetchBuildings is a record of    *)
(* the viewport whose bounds it has read and of the await it stands at.    *)

MaxViewports == 4
MaxFetches == 4

\* the four corners of a building 0.0001 degree wide
Square(lat, lng) ==
  << [lat |-> lat, lon |-> lng], [lat |-> lat, lon |-> lng + 1],
     [lat |-> lat + 1, lon |-> lng + 1], [lat |-> lat + 1, lon |-> lng] >>

\* the elements Overpass answers for the bounds of viewport v: the ways v
\* and v + 1, neighbouring viewports overlapping in one building, and a way
\* without geometry
OverpassElements(v) ==
  << [id |-> v, geometry |-> Square(238100 + 10 * v, 904100)],
     [id |-> 100 + v, geometry |-> <<>>],
     [id |-> v + 1, geometry |-> Square(238100 + 10 * (v + 1), 904100)] >>

\* data.elements.map(...).filter(Boolean): the buildings of the elements
\* with a geometry (the area of the polygon is left out of the page)
processedBuildings(elements) ==
  LET kept == SelectSeq(elements, LAMBDA element : element.geometry # <<>>)
  IN [k \in 1..Len(kept) |->
        [id |-> kept[k].id, nodes |-> kept[k].geometry,
         centroid |-> calculateCentroid(kept[k].geometry)]]

\* the polygons pushed to buildingLayersRef.current, one for each building
Polygons(elements) ==
  LET bs == processedBuildings(elements)
  IN [k \in 1..Len(bs) |-> [id |-> bs[k].id, latlngs |-> bs[k].nodes]]

\* fetchBuildings up to its await fetch(...): the bounds are read here
StartFetch(v) == Append(fetches, [bbox |-> v, pc |-> "fetch"])

\* initMap: the map is created on the first viewport and fetchBuildings is
\* called
initMap ==
  /\ viewport = 0
  /\ viewport' = 1
  /\ fetches' = StartFetch(1)
  /\ UNCHANGED <<moveTimeout, buildings, buildingLayers, serverVars, callVars>>

\* map.on('moveend'): the user has moved the map; the timer is cleared and
\* set again
MoveEnd ==
  /\ viewport \in 1..(MaxViewports - 1)
  /\ viewport' = viewport + 1
  /\ moveTimeout' = TRUE
  /\ UNCHANGED <<fetches, buildings, buildingLayers, serverVars, callVars>>

\* the callback of setTimeout(..., 500): fetchBuildings is called on the
\* viewport of this moment
MoveTimeout ==
  /\ moveTimeout
  /\ Len(fetches) < MaxFetches
  /\ moveTimeout' = FALSE
  /\ fetches' = StartFetch(viewport)
  /\ UNCHANGED <<viewport, buildings, buildingLayers, serverVars, callVars>>

\* await fetch(...) of run i returns: with an answer that is ok, or the run
\* throws and ends in its catch
FetchReturns(i, ok) ==
  /\ i \in DOMAIN fetches
  /\ fetches[i].pc = "fetch"
  /\ fetches' = [fetches EXCEPT ![i].pc = IF ok THEN "json" ELSE "failed"]
  /\ UNCHANGED <<viewport, moveTimeout, buildings, buildingLayers, serverVars, callVars>>

\* await response.json() of run i returns and the run goes to its end: the
\* polygons on the map and the building set are replaced by those of its
\* answer; or the answer does not parse and the run ends in its catch
JsonReturns(i, ok) ==
  /\ i \in DOMAIN fetches
  /\ fetches[i].pc = "json"
  /\ fetches' = [fetches EXCEPT ![i].pc = IF ok THEN "done" ELSE "failed"]
  /\ buildingLayers' = IF ok THEN Polygons(OverpassElements(fetches[i].bbox))
                        ELSE buildingLayers
  /\ buildings' = IF ok THEN processedBuildings(OverpassElements(fetches[i].bbox))
                   ELSE buildings
  /\ UNCHANGED <<viewport, moveTimeout, serverVars, callVars>>

PageNext ==
  \/ initMap
  \/ MoveEnd
  \/ MoveTimeout
  \/ \E i \in 1..MaxFetches, ok \in BOOLEAN : FetchReturns(i, ok)
  \/ \E i \in 1..MaxFetches, ok \in BOOLEAN : JsonReturns(i, ok)

PageSpec == Init /\ [][PageNext]_vars

----------------------------------------------------------------------------
(* Properties *)

CallIds == { id \in Reqs \X (1..MaxCalls) : id[2] <= Len(calls[id[1]]) }
Call(id) == calls[id[1]][id[2]]
Sent(c) == c.sentAt # Never
\* the calls that a step has started
NewCallIds == { id \in Reqs \X (1..MaxCalls) :
                  /\ id[2] > Len(calls[id[1]])
                  /\ id[2] <= Len(calls'[id[1]]) }
NewCallOf(id) == calls'[id[1]][id[2]]

CachedFns == {"solar", "temp", "precip"}

\* the entries of a cache for a key that a lookup at time t would return
LiveEntries(cache, key, t) ==
  { i \in 1..Len(cache) : cache[i].key = key /\ t - cache[i].timestamp < CACHE_DURATION }

\* two coordinates given in 1e-4 degree agree when rounded to three decimals
Thousandth(x) == IF x >= 0 THEN (x + 5) \div 10 ELSE -((5 - x) \div 10)
SameQuantised(c, d) ==
  Thousandth(c.lat) = Thousandth(d.lat) /\ Thousandth(c.lng) = Thousandth(d.lng)

\* C1: any two upstream requests, of any callers and providers, are
\* dispatched at least MIN_REQUEST_INTERVAL apart.
C1_DispatchSpacing ==
  \A a \in CallIds : \A b \in CallIds :
     (a # b /\ Sent(Call(a)) /\ Sent(Call(b)))
       => Abs(Call(a).sentAt - Call(b).sentAt) >= MIN_REQUEST_INTERVAL

\* C2 as stated: of two calls of one gateway fetch function with one cache
\* key, both made within the TTL, exactly one issues an upstream request and
\* both return the same value, whether they overlap or not.
C2_OneUpstreamPerKey ==
  now - StartTime < CACHE_DURATION =>
    \A a \in CallIds : \A b \in CallIds :
       (/\ a # b
        /\ Call(a).fn \in CachedFns /\ Call(a).fn = Call(b).fn
        /\ SameQuantised(Call(a), Call(b))
        /\ Call(a).pc = "done" /\ Call(b).pc = "done")
         => /\ Sent(Call(a)) # Sent(Call(b))
            /\ Call(a).out = Call(b).out

\* C2 as amended: when a call of a gateway fetch function has returned a
\* real result from its upstream request, a later call of the same function
\* whose coordinates quantise to the same three decimals, started while the
\* first call's cache entry is still present and unexpired, issues no
\* upstream request and returns the identical value as the first.
C2_SecondCallServedFromFirst ==
  [][\A id \in NewCallIds : \A a \in CallIds :
       LET c == NewCallOf(id) IN
       (/\ c.fn \in CachedFns /\ Call(a).fn = c.fn
        /\ SameQuantised(Call(a), c)
        /\ Call(a).pc = "done" /\ Sent(Call(a)) /\ Call(a).out.isReal
        /\ \E i \in 1..Len(dataCache') :
              /\ dataCache'[i].key = Call(a).key
              /\ dataCache'[i].data = Call(a).out
              /\ now - dataCache'[i].timestamp < CACHE_DURATION)
         => /\ c.pc = "done" /\ ~Sent(c)
            /\ c.out = Call(a).out
    ]_vars

\* a second call with another latitude of the same quantised key has been
\* served the value of the first
C2_Witness ==
  \E a \in CallIds : \E b \in CallIds :
     /\ Call(a).fn \in CachedFns /\ Call(a).fn = Call(b).fn
     /\ SameQuantised(Call(a), Call(b)) /\ Call(a).lat # Call(b).lat
     /\ Sent(Call(a)) /\ Call(a).pc = "done"
     /\ Call(b).hit /\ Call(b).out = Call(a).out

\* the types of cache key: the three gateway fetch functions and the two
\* endpoints that look the cache up themselves
CacheTypes == CachedFns \cup {"forecast", "airquality"}

\* C3: a lookup that finds an unexpired entry returns the entry's value with
\* no upstream request and no throttle wait; a request whose every lookup is
\* such a hit leaves lastRequestTime and the cache as they were.
C3_CacheHitIsPure ==
  [][/\ \A id \in NewCallIds :
          LET c == NewCallOf(id) IN
          (c.fn \in CacheTypes /\ LiveEntries(dataCache', c.key, now) # {})
            => /\ c.pc = "done" /\ ~Sent(c) /\ c.wake = 0
               /\ \A i \in LiveEntries(dataCache', c.key, now) :
                    c.out = dataCache'[i].data
     /\ \A r \in Reqs :
          (/\ pc[r] = "idle" /\ calls'[r] # <<>>
           /\ \A i \in 1..Len(calls'[r]) :
                LiveEntries(dataCache, calls'[r][i].key, now) # {})
            => /\ lastRequestTime' = lastRequestTime
               /\ dataCache' = dataCache
    ]_vars

\* a getRoofData request answered from the cache alone
C3_Witness ==
  \E r \in Reqs :
     /\ ep[r] = "roof" /\ pc[r] = "done" /\ Len(calls[r]) = 2
     /\ calls[r][1].hit /\ calls[r][2].hit

\* the calls whose upstream request settles in a step
SettledIds == { id \in CallIds : Call(id).pc = "inflight" /\ NewCallOf(id).pc = "done" }

\* C4: a failed upstream fetch adds no cache entry, except that the fallback
\* result of a failed fetchPrecipitationData is stored under its key.
C4_OnlyFallbackIsCached ==
  [][\A id \in SettledIds :
       LET c == NewCallOf(id) IN
       c.outcome = "failed"
         => IF c.fn = "precip"
            THEN \E i \in LiveEntries(dataCache', c.key, now) :
                    dataCache'[i].data = c.out
            ELSE dataCache' = dataCache
    ]_vars

GatewayFns == {"solar", "temp", "precip", "stations", "model"}

\* C5: every gateway fetch whose upstream request fails returns a value tagged
\* isReal = false, the climate fetches with a non-empty note.
C5_FailuresAreTagged ==
  \A id \in CallIds :
     LET c == Call(id) IN
     (c.fn \in GatewayFns /\ c.pc = "done" /\ c.outcome = "failed")
       => /\ "isReal" \in DOMAIN c.out
          /\ c.out.isReal = FALSE
          /\ c.fn \in {"solar", "temp"}
               => ("note" \in DOMAIN c.out /\ c.out.note # <<>>)

NumericFields ==
  {"avgIrradiance", "avgTemperature", "annualPrecipitation", "avgDailyPrecipitation"}

HasNote(out) == "note" \in DOMAIN out /\ out.note # <<>>

\* C6 as stated: every climate or precipitation result with isReal = false
\* has its numeric data fields absent or null and carries a note.
C6_UnrealHasNoNumbers ==
  \A id \in CallIds :
     LET c == Call(id) IN
     (c.fn \in CachedFns /\ c.pc = "done" /\ ~c.out.isReal)
       => /\ \A f \in NumericFields \cap DOMAIN c.out : c.out[f] = Null
          /\ HasNote(c.out)

\* C6 as amended: every result with isReal = false carries a note; those of
\* fetchSolarData and fetchTemperaturePoint have null numeric fields, that of
\* fetchPrecipitationData has the regional fallback in its numeric fields,
\* 2200 mm a year and 6.03 mm a day.
C6_UnrealIsNullOrFallback ==
  \A id \in CallIds :
     LET c == Call(id) IN
     (c.fn \in CachedFns /\ c.pc = "done" /\ ~c.out.isReal)
       => /\ HasNote(c.out)
          /\ c.fn \in {"solar", "temp"}
               => \A f \in NumericFields \cap DOMAIN c.out : c.out[f] = Null
          /\ c.fn = "solar" => {"avgIrradiance", "avgTemperature"} \subseteq DOMAIN c.out
          /\ c.fn = "precip"
               => /\ c.out.annualPrecipitation = 2200
                  /\ c.out.avgDailyPrecipitation = 603

\* a failed solar fetch and a failed precipitation fetch have both returned
C6_Witness ==
  \E a \in CallIds : \E b \in CallIds :
     /\ Call(a).fn = "solar" /\ Call(a).pc = "done" /\ Call(a).outcome = "failed"
     /\ Call(b).fn = "precip" /\ Call(b).pc = "done" /\ Call(b).outcome = "failed"

\* C7: in getAirQuality, once the station query has returned, the model is
\* queried exactly when no station with a PM2.5 reading was found; the
\* response is then the single model location if the model call succeeds and
\* the empty no-data result with isReal = false only if it fails too.
C7_ModelFallback ==
  \A r \in Reqs :
     (/\ ep[r] = "air" /\ calls[r] # <<>>
      /\ calls[r][1].fn = "stations" /\ calls[r][1].pc = "done")
       => LET stationData == calls[r][1].out IN
          IF Len(stationData.locations) > 0
          THEN /\ Len(calls[r]) = 1 /\ pc[r] = "done"
               /\ resp[r] = Json(stationData)
          ELSE /\ Len(calls[r]) = 2 /\ calls[r][2].fn = "model"
               /\ calls[r][2].pc = "done"
                    => /\ pc[r] = "done" /\ resp[r].status = 200
                       /\ IF calls[r][2].outcome = "ok"
                          THEN /\ Len(resp[r].body.locations) = 1
                               /\ resp[r].body.locations[1].sourceType = "model"
                          ELSE /\ resp[r].body.locations = <<>>
                               /\ resp[r].body.isReal = FALSE

\* no station qualified, the model answered, and the response is its estimate
C7_Witness ==
  \E r \in Reqs :
     /\ ep[r] = "air" /\ pc[r] = "done" /\ Len(calls[r]) = 2
     /\ calls[r][1].outcome = "ok" /\ calls[r][2].outcome = "ok"
     /\ resp[r].body.locations[1].sourceType = "model"

RoofFields ==
  {"location", "solarData", "precipData", "solarPotential", "rainwaterPotential",
   "timestamp"}
HeatFields ==
  {"heatPoints", "bounds", "totalPoints", "successfulPoints", "failedPoints",
   "dataQuality", "timestamp"}
ForecastFields ==
  {"location", "hourly", "dailyTotals", "totalPrecipitation", "source", "isReal",
   "timestamp"}
AirFields == {"locations", "count", "source", "isReal", "timestamp"}

SuccessFields(e) ==
  CASE e = "roof" -> RoofFields
    [] e = "heat" -> HeatFields
    [] e = "forecast" -> ForecastFields
    [] e = "air" -> AirFields

\* C8 as stated: every request that passes validation is answered with the
\* fields of the endpoint's success response, whatever the upstream did.
C8_SameShape ==
  \A r \in Reqs :
     (pc[r] = "done" /\ resp[r].status # 400)
       => /\ resp[r].status = 200
          /\ SuccessFields(ep[r]) \subseteq DOMAIN resp[r].body

\* C8 as amended: getHeatMap and getAirQuality answer 200 with the fields of
\* their success response whether the upstream data is real or not;
\* getRoofData does so when its solar result is real, also when the
\* precipitation result is not, and answers 503 with error and details when
\* the solar result is not real; getRainfallForecast answers 500 with error,
\* details and isReal = false when its upstream request fails.
C8_ShapeByEndpoint ==
  \A r \in Reqs :
     (pc[r] = "done" /\ resp[r].status # 400)
       => CASE ep[r] = "heat" ->
                 /\ resp[r].status = 200
                 /\ DOMAIN resp[r].body = HeatFields
            [] ep[r] = "air" ->
                 /\ resp[r].status = 200
                 /\ AirFields \subseteq DOMAIN resp[r].body
                 /\ (\A i \in 1..Len(calls[r]) : calls[r][i].outcome = "failed")
                      => (~resp[r].body.isReal /\ resp[r].body.locations = <<>>)
            [] ep[r] = "roof" ->
                 IF calls[r][1].out.isReal
                 THEN resp[r].status = 200 /\ DOMAIN resp[r].body = RoofFields
                 ELSE resp[r].status = 503
                        /\ DOMAIN resp[r].body = {"error", "details"}
            [] ep[r] = "forecast" ->
                 IF calls[r][1].outcome = "failed"
                 THEN /\ resp[r].status = 500
                      /\ DOMAIN resp[r].body = {"error", "details", "isReal"}
                      /\ ~resp[r].body.isReal
                 ELSE resp[r].status = 200 /\ DOMAIN resp[r].body = ForecastFields

\* a getRoofData request answered 503 and a getRainfallForecast request
\* answered 500, each after its upstream failed
C8_Witness ==
  \E r \in Reqs : \E q \in Reqs :
     /\ ep[r] = "roof" /\ pc[r] = "done" /\ resp[r].status = 503
     /\ ep[q] = "forecast" /\ pc[q] = "done" /\ resp[q].status = 500

\* C9: a getRoofData request whose solar fetch succeeds and whose
\* precipitation fetch soft-fails is answered 200 with the real solar data, a
\* computed solarPotential, the precipitation data marked isReal = false and
\* the unavailable marker as rainwaterPotential.
C9_PartialSuccess ==
  \A r \in Reqs :
     (/\ ep[r] = "roof" /\ pc[r] = "done" /\ Len(calls[r]) = 2
      /\ calls[r][1].outcome = "ok" \/ calls[r][1].hit
      /\ calls[r][2].outcome = "failed")
       => /\ resp[r].status = 200
          /\ resp[r].body.solarData = calls[r][1].out
          /\ resp[r].body.solarData.isReal
          /\ "annualEnergy" \in DOMAIN resp[r].body.solarPotential
          /\ ~resp[r].body.precipData.isReal
          /\ DOMAIN resp[r].body.rainwaterPotential = {"error", "note"}

\* C10: a getRoofData request without latitude, longitude or area is answered
\* 400 at once: it makes no gateway call, so no upstream request and no
\* throttleRequest, and leaves the cache and lastRequestTime as they were.
C10_MissingParamsRejected ==
  [][\A r \in Reqs :
       (/\ pc[r] = "idle" /\ ep'[r] = "roof"
        /\ Undefined \in {body'[r].latitude, body'[r].longitude, body'[r].area})
         => /\ pc'[r] = "done" /\ resp'[r].status = 400
            /\ calls'[r] = <<>>
            /\ dataCache' = dataCache
            /\ lastRequestTime' = lastRequestTime
    ]_vars

\* a request that names no area has been answered 400 while the cache held
\* an entry and the throttle had been used
C10_Witness ==
  \E r \in Reqs :
     /\ ep[r] = "roof" /\ pc[r] = "done" /\ resp[r].status = 400
     /\ body[r].area = Undefined
     /\ dataCache # <<>> /\ lastRequestTime > 0

\* C16: once a setCache call has returned, the cache holds no more entries
\* than its capacity (1000 in the code), whatever the calls and their keys.
C16_CacheBounded ==
  /\ Len(dataCache) <= MaxCacheEntries
  /\ \A i \in 1..Len(dataCache) : \A j \in 1..Len(dataCache) :
        dataCache[i].key = dataCache[j].key => i = j

\* a setCache call on a full cache has evicted an entry
C16_Witness ==
  /\ op = "setCache" /\ Len(ret) = 1
  /\ Len(dataCache) = MaxCacheEntries
  /\ dataCache[Len(dataCache)].key = arg

\* C17 as stated: the entry that setCache evicts has the smallest stored
\* timestamp of all the entries, also when keys have been overwritten.
C17_EvictsSmallestTimestamp ==
  [][\A i \in 1..Len(Evicted(dataCache, dataCache')) :
       \A j \in 1..Len(dataCache) :
          Evicted(dataCache, dataCache')[i].timestamp <= dataCache[j].timestamp
    ]_vars

\* C17 as amended: the entry that setCache evicts is the one whose key was
\* put into the cache first among the keys present; when no key present has
\* been overwritten since, it is also the entry with the smallest stored
\* timestamp.  An overwritten key keeps its place in the order, so the
\* evicted entry can carry a newer timestamp than entries that stay.
C17_EvictsFirstInserted ==
  [][\A i \in 1..Len(Evicted(dataCache, dataCache')) :
       LET e == Evicted(dataCache, dataCache')[i] IN
       /\ Len(Evicted(dataCache, dataCache')) = 1
       /\ Len(dataCache) = MaxCacheEntries
       /\ \A j \in 1..Len(dataCache) : e.born <= dataCache[j].born
       /\ (\A j \in 1..Len(dataCache) : dataCache[j].born = dataCache[j].timestamp)
            => \A j \in 1..Len(dataCache) : e.timestamp <= dataCache[j].timestamp
    ]_vars

\* setCache has evicted an entry that had been overwritten, and an entry
\* with an older timestamp stays
C17_Witness ==
  /\ op = "setCache" /\ Len(ret) = 1
  /\ ret[1].born < ret[1].timestamp
  /\ \E j \in 1..Len(dataCache) : dataCache[j].timestamp < ret[1].timestamp

\* the gateway calls and the forecast endpoint, which look the cache up
LookupFns == CachedFns \cup {"forecast"}

Isolated(bs, i, d) ==
  \A j \in 1..Len(bs) : j # i => ~Near(bs[i], bs[j], d)

\* C11: every cluster that identifyBuildingClusters returns has at least 3
\* buildings, and a building with no other building within the threshold is
\* in none of them.
C11_ClustersOfThree ==
  op = "identifyBuildingClusters"
    => \A c \in 1..Len(ret) :
         /\ Len(ret[c].buildings) >= 3
         /\ Len(ret[c].indices) = Len(ret[c].buildings)
         /\ \A k \in 1..Len(ret[c].indices) :
              /\ ret[c].buildings[k] = arg.buildings[ret[c].indices[k]]
              /\ ~Isolated(arg.buildings, ret[c].indices[k], arg.maxDistance)

\* a list with an isolated building and a pair, of which a cluster of the
\* others is returned
C11_Witness ==
  /\ op = "identifyBuildingClusters"
  /\ Len(ret) = 1
  /\ \E i \in 1..Len(arg.buildings) : Isolated(arg.buildings, i, arg.maxDistance)

\* C12: calculateAQI gives 50 for PM2.5 12.0, 100 for 35.4, 0 for 0 and 500
\* for 600; its result is an integer from 0 to 500 for every input, and 500
\* for every input above the highest band.
C12_AQIValues ==
  op = "calculateAQI"
    => /\ ret \in 0..500
       /\ arg.pm25 = 1200 => ret = 50
       /\ arg.pm25 = 3540 => ret = 100
       /\ arg.pm25 = 0 => ret = 0
       /\ arg.pm25 = 60000 => ret = 500
       /\ arg.pm25 > 50040 => ret = 500

\* calculateAQI has been applied to 600
C12_Witness ==
  op = "calculateAQI" /\ arg.pm25 = 60000 /\ ret = 500

\* C20: for every area and every real average irradiance,
\* calculateSolarPotential reports annualEnergy as
\* area * avgIrradiance * 365 * 0.20 * 0.85 rounded to the nearest integer
\* (322660 for area 1000 and irradiance 5.2) and co2Offset as half of the
\* unrounded energy, rounded.  With the irradiance in tenths the energy is
\* area * avgIrradiance * 6205 / 1000.
C20_SolarFormula ==
  (/\ op = "calculateSolarPotential"
   /\ arg.solarData.isReal /\ IsNumber(arg.solarData.avgIrradiance))
    => LET energy1000 == arg.area * arg.solarData.avgIrradiance * 6205 IN
       /\ "annualEnergy" \in DOMAIN ret
       /\ 2 * (1000 * ret.annualEnergy - energy1000) \in (-999)..1000
       /\ 2000 * ret.co2Offset - energy1000 \in (-999)..1000
       /\ (arg.area = 1000 /\ arg.solarData.avgIrradiance = 52)
            => ret.annualEnergy = 322660


\* a score between 0 and 1, in thousandths
InUnit(x) == x \in 0..1000

\* C13: the sub-scores and the composite of every cell of the urban-heat
\* grid and of the priority-zone grid, and of every cluster of the priority
\* zones, lie between 0 and 1, whatever the temperature and the buildings
\* they are derived from; so does the intensity of every point of a pass.
C13_ScoresInUnitInterval ==
  /\ op = "renderCombinedUHI" =>
        /\ \A k \in DOMAIN ret.cells :
              LET f == ret.cells[k].scores
              IN /\ InUnit(f.nasaTempScore) /\ InUnit(f.buildingDensity)
                 /\ InUnit(f.greenSpaceDeficit) /\ InUnit(f.combinedUHI)
        /\ \A k \in DOMAIN ret.points : InUnit(ret.points[k][3])
  /\ op = "renderPriorityZones" =>
        /\ \A k \in DOMAIN ret.cells :
              LET f == ret.cells[k].scores
              IN /\ InUnit(f.heatScore) /\ InUnit(f.densityScore)
                 /\ InUnit(f.greenDeficit) /\ InUnit(f.rooftopPotentialScore)
                 /\ InUnit(f.priorityScore)
        /\ \A k \in DOMAIN ret.points : InUnit(ret.points[k][3])
  /\ op = "clusterScores" =>
        \A k \in DOMAIN ret :
          /\ InUnit(ret[k].heat) /\ InUnit(ret[k].density) /\ InUnit(ret[k].green)
          /\ InUnit(ret[k].rooftop) /\ InUnit(ret[k].overall)

\* a cell of the priority-zone grid at 45 degrees, full of very large
\* buildings: its heat, green and rooftop scores are held at 1
C13_Witness ==
  /\ op = "renderPriorityZones"
  /\ \E k \in DOMAIN ret.cells :
        /\ ret.cells[k].tempData = NasaData(450)
        /\ ret.cells[k].scores.heatScore = 1000
        /\ ret.cells[k].scores.greenDeficit = 1000
        /\ ret.cells[k].scores.rooftopPotentialScore = 1000
        /\ ret.cells[k].scores.priorityScore > 800

\* the centroid of building b is in the half-open box from (lat, lng) of the
\* given extents
InHalfOpen(b, lat, lng, latExtent, lngExtent) ==
  /\ lat <= b.centroid.lat /\ b.centroid.lat < lat + latExtent
  /\ lng <= b.centroid.lng /\ b.centroid.lng < lng + lngExtent

\* C14: in a pass of the urban-heat grid, of the priority-zone grid and of
\* the density map, a building is counted only in a cell whose half-open
\* interval contains its centroid, no building is counted in two cells,
\* and every building whose centroid lies inside the bounding box (south
\* and west edge included, north and east edge excluded) is counted in
\* exactly one cell.
C14_OneCellPerBuilding ==
  op \in GridFns =>
    LET cellSize == CellSizeOf(op, arg.zoom)
        cells == ret.cells
        CellsOf(b) == { k \in DOMAIN cells : b.id \in cells[k].counted }
    IN \A i \in DOMAIN arg.buildings :
         LET b == arg.buildings[i]
         IN /\ Cardinality(CellsOf(b)) <= 1
            /\ \A k \in CellsOf(b) :
                  InHalfOpen(b, cells[k].lat, cells[k].lng, cellSize, cellSize)
            /\ InHalfOpen(b, arg.bounds.south, arg.bounds.west,
                          arg.bounds.north - arg.bounds.south,
                          arg.bounds.east - arg.bounds.west)
                  => Cardinality(CellsOf(b)) = 1

\* a pass of two rows of cells with a building on the edge between them,
\* counted in the northern one, and a building south of the box, counted
\* in none
C14_Witness ==
  /\ op = "renderCombinedUHI"
  /\ \E k \in DOMAIN ret.cells, i, j \in DOMAIN arg.buildings :
        /\ ret.cells[k].lat > arg.bounds.south
        /\ arg.buildings[i].centroid.lat = ret.cells[k].lat
        /\ arg.buildings[i].id \in ret.cells[k].counted
        /\ \A n \in DOMAIN ret.cells : n # k => arg.buildings[i].id \notin ret.cells[n].counted
        /\ arg.buildings[j].centroid.lat < arg.bounds.south
        /\ \A n \in DOMAIN ret.cells : arg.buildings[j].id \notin ret.cells[n].counted

\* the cells of a pass whose climate query has not failed
Succeeded(cells) == { k \in DOMAIN cells : cells[k].tempData # NoData }

\* C15: in a pass of the urban-heat grid and of the priority-zone grid, the
\* output has no more points than there are cells whose climate query has
\* succeeded, and no point at all when every query has failed.
C15_NoPointForFailedCell ==
  op \in {"renderCombinedUHI", "renderPriorityZones"} =>
    Len(ret.points) <= Cardinality(Succeeded(ret.cells))

\* every run of fetchBuildings has finished and none is about to start
AllRunsFinished ==
  /\ fetches # <<>>
  /\ ~moveTimeout
  /\ \A i \in DOMAIN fetches : fetches[i].pc \in {"done", "failed"}

\* C19: once all runs of fetchBuildings have finished, the last of them
\* having succeeded, the building set and the polygons on the map are the
\* whole result of the fetch for the viewport requested last, whatever the
\* order in which overlapping runs have completed.
C19_LatestViewportWins ==
  (AllRunsFinished /\ fetches[Len(fetches)].pc = "done") =>
    /\ buildings = processedBuildings(OverpassElements(fetches[Len(fetches)].bbox))
    /\ buildingLayers = Polygons(OverpassElements(fetches[Len(fetches)].bbox))

\* the geometric centre of the box around the nodes
CentreOf(nodes) ==
  LET lats == { nodes[k].lat : k \in DOMAIN nodes }
      lons == { nodes[k].lon : k \in DOMAIN nodes }
  IN [lat |-> (MinOf(lats) + MaxOf(lats)) \div 2,
      lng |-> (MinOf(lons) + MaxOf(lons)) \div 2]

\* C21: calculateCentroid of the ring of an axis-aligned square is the
\* centre of the square, for the open ring of its four corners and for the
\* closed ring that repeats the first corner as the last node.
C21_CentroidOfSquare ==
  op = "calculateCentroid" => ret = CentreOf(arg.nodes)

\* the calls that issue their upstream request in a step: new calls that
\* pass the throttle at once and calls whose throttle timer fires
SentIds ==
  { id \in NewCallIds : Sent(NewCallOf(id)) }
    \cup { id \in CallIds : ~Sent(Call(id)) /\ Sent(NewCallOf(id)) }

\* the cache entries written in a step
WrittenEntries ==
  { i \in 1..Len(dataCache') :
      \A j \in 1..Len(dataCache) : dataCache[j] # dataCache'[i] }

\* C22: in a gateway fetch that misses the cache the steps come in the
\* order lookup, throttleRequest, upstream request, setCache, return.  A
\* call issues its upstream request only after a lookup that missed and at
\* the moment its own throttleRequest returns (the interval has passed or
\* its timer has fired, and lastRequestTime is stamped); a call returns
\* without a request only on a hit; a cache entry is written only when an
\* upstream request settles with a usable answer, with a value tagged
\* isReal = true and before that value is returned.
C22_FetchStepOrder ==
  [][/\ \A id \in SentIds :
          LET c == NewCallOf(id) IN
          /\ ~c.hit /\ c.pc = "inflight" /\ c.sentAt = now
          /\ lastRequestTime' = now
          /\ IF id \in NewCallIds
             THEN /\ now - lastRequestTime >= MIN_REQUEST_INTERVAL
                  /\ c.fn \in CacheTypes => LiveEntries(dataCache, c.key, now) = {}
             ELSE Call(id).pc = "waiting" /\ Call(id).wake <= now
     /\ \A id \in NewCallIds :
          LET c == NewCallOf(id) IN
          /\ c.pc = "done" => (c.hit /\ ~Sent(c))
          /\ c.pc = "waiting" => (~c.hit /\ ~Sent(c) /\ c.wake > now)
     /\ \A i \in WrittenEntries :
          /\ dataCache'[i].data.isReal
          /\ dataCache'[i].timestamp = now
          /\ \E id \in SettledIds :
                /\ Sent(Call(id))
                /\ NewCallOf(id).outcome = "ok"
                /\ NewCallOf(id).out = dataCache'[i].data
     /\ \A id \in SettledIds :
          LET c == NewCallOf(id) IN
          (\/ c.fn \in CacheTypes /\ c.outcome = "ok"
           \/ c.fn = "stations" /\ Len(c.out.locations) > 0
           \/ c.fn = "model" /\ c.out.isReal)
            => \E i \in 1..Len(dataCache') :
                  /\ c.fn \in CacheTypes => dataCache'[i].key = c.key
                  /\ dataCache'[i].data = c.out
                  /\ dataCache'[i].timestamp = now
    ]_vars

\* a call that has waited in throttleRequest, has sent its request later
\* than it started, and whose real result is in the cache
C22_Witness ==
  \E a \in CallIds :
     /\ Call(a).fn \in CachedFns /\ Call(a).pc = "done" /\ Sent(Call(a))
     /\ Call(a).outcome = "ok" /\ Call(a).out.isReal
     /\ Call(a).sentAt > StartTime
     /\ \E i \in 1..Len(dataCache) :
           /\ dataCache[i].key = Call(a).key /\ dataCache[i].data = Call(a).out
           /\ dataCache[i].timestamp > Call(a).sentAt

Distance2(b, c) ==
  (b.centroid.lat - c.centroid.lat) * (b.centroid.lat - c.centroid.lat)
    + (b.centroid.lng - c.centroid.lng) * (b.centroid.lng - c.centroid.lng)

\* the places in the input list of the members of a cluster
Members(cluster) == { cluster.indices[k] : k \in 1..Len(cluster.indices) }

\* C24: in the clusters that identifyBuildingClusters returns no building
\* is a member twice or of two clusters, and every member is strictly
\* within the threshold of the first building of its cluster, the seed;
\* being near another member does not make a building a member.
C24_SeedBoundClusters ==
  op = "identifyBuildingClusters"
    => /\ \A c \in 1..Len(ret) :
            /\ Cardinality(Members(ret[c])) = Len(ret[c].indices)
            /\ \A k \in 2..Len(ret[c].indices) :
                  Distance2(arg.buildings[ret[c].indices[1]],
                            arg.buildings[ret[c].indices[k]])
                    < arg.maxDistance * arg.maxDistance
       /\ \A c, d \in 1..Len(ret) :
            c # d => Members(ret[c]) \cap Members(ret[d]) = {}

\* a cluster and a building outside every cluster that is within the
\* threshold of a member, and not of the seed
C24_Witness ==
  /\ op = "identifyBuildingClusters"
  /\ Len(ret) = 1
  /\ \E i \in 1..Len(arg.buildings) : \E k \in 2..Len(ret[1].indices) :
        /\ i \notin Members(ret[1])
        /\ Distance2(arg.buildings[i], arg.buildings[ret[1].indices[k]])
             < arg.maxDistance * arg.maxDistance
        /\ Distance2(arg.buildings[i], arg.buildings[ret[1].indices[1]])
             >= arg.maxDistance * arg.maxDistance

\* the ids of the buildings in the clusters
ClusteredIds(clusters) ==
  UNION { { clusters[c].buildings[k].id : k \in 1..Len(clusters[c].buildings) } :
            c \in 1..Len(clusters) }

\* the orders of a list
Orders(bs) ==
  { [k \in 1..Len(bs) |-> bs[p[k]]] :
      p \in { q \in [1..Len(bs) -> 1..Len(bs)] :
                \A i, j \in 1..Len(bs) : i # j => q[i] # q[j] } }

\* C26: the buildings that identifyBuildingClusters puts into clusters are
\* the same for every order of the input list, and a building with at least
\* two other buildings within the threshold is in a cluster.
C26_OrderIndependent ==
  op = "identifyBuildingClusters"
    => /\ \A bs \in Orders(arg.buildings) :
            ClusteredIds(identifyBuildingClusters(bs, arg.maxDistance)) = ClusteredIds(ret)
       /\ \A i \in 1..Len(arg.buildings) :
            Cardinality({ j \in 1..Len(arg.buildings) :
                            /\ j # i
                            /\ Distance2(arg.buildings[i], arg.buildings[j])
                                 < arg.maxDistance * arg.maxDistance }) >= 2
              => arg.buildings[i].id \in ClusteredIds(ret)

\* the getHeatMap requests that have been answered with a heat map
HeatAnswered == { r \in Reqs : ep[r] = "heat" /\ pc[r] = "done" /\ resp[r].status = 200 }

\* the grid points of request r whose fetch has returned a real result, in
\* the order of the grid
RealPoints(r) == SeqOfSet({ k \in 1..Len(calls[r]) : calls[r][k].out.isReal })

\* C25: in the answer of getHeatMap, in whatever order the temperature
\* fetches have completed, the call of every grid point has been made for
\* the coordinates of that point, every heat point carries the coordinates
\* of a grid point and the temperature its call has returned, every grid
\* point is either one heat point or one failed point, and successfulPoints
\* + failedPoints = totalPoints.
C25_HeatPointsKeepTheirCoordinates ==
  \A r \in HeatAnswered :
    LET points == GridPoints(body[r].bounds)
        answer == resp[r].body
    IN /\ Len(calls[r]) = Len(points)
       /\ \A k \in 1..Len(points) :
            calls[r][k].lat = points[k].lat /\ calls[r][k].lng = points[k].lng
       /\ answer.totalPoints = Len(points)
       /\ answer.successfulPoints = Len(RealPoints(r))
       /\ answer.successfulPoints + answer.failedPoints = answer.totalPoints
       /\ Len(answer.heatPoints) = Len(RealPoints(r))
       /\ \A j \in 1..Len(answer.heatPoints) :
            LET k == RealPoints(r)[j] IN
            /\ answer.heatPoints[j].lat = points[k].lat
            /\ answer.heatPoints[j].lng = points[k].lng
            /\ answer.heatPoints[j].temperature = calls[r][k].out.avgTemperature

\* a heat map whose first grid point has failed and whose later points are
\* real, one of them having completed and been cached before an earlier one
C25_Witness ==
  \E r \in HeatAnswered :
    /\ ~calls[r][1].out.isReal
    /\ resp[r].body.successfulPoints >= 2
    /\ \E k, m \in 2..Len(calls[r]) : \E i, j \in 1..Len(dataCache) :
          /\ k < m
          /\ dataCache[i].key = calls[r][k].key /\ dataCache[j].key = calls[r][m].key
          /\ calls[r][k].key # calls[r][m].key
          /\ dataCache[j].timestamp < dataCache[i].timestamp

\* C27: calculateAQI does not decrease as PM2.5 rises from 0: the AQI of a
\* concentration is at least the AQI of the concentration one step of the
\* inputs below it, between the bands as within them.
C27_AQIMonotone ==
  (op = "calculateAQI" /\ IsNumber(arg.pm25) /\ arg.pm25 >= PMStep)
    => calculateAQI(arg.pm25 - PMStep) <= ret

\* the averages of a result of fetchSolarData or fetchTemperaturePoint are
\* numbers
HasAverages(fn, data) ==
  /\ IsNumber(data.avgTemperature)
  /\ fn = "solar" => IsNumber(data.avgIrradiance) /\ data.dataPoints > 0

\* C28: every result that fetchSolarData or fetchTemperaturePoint returns
\* with isReal = true, and every such result in the cache, carries numeric
\* averages, taken over at least one daily value that is not the sentinel;
\* an answer of sentinels alone is not returned or cached as real.
C28_RealAveragesAreNumbers ==
  /\ \A id \in CallIds :
        (Call(id).fn \in {"solar", "temp"} /\ Call(id).pc = "done" /\ Call(id).out.isReal)
          => HasAverages(Call(id).fn, Call(id).out)
  /\ \A i \in 1..Len(dataCache) :
        (dataCache[i].key[1] \in {"solar", "temp"} /\ dataCache[i].data.isReal)
          => HasAverages(dataCache[i].key[1], dataCache[i].data)

\* the request of an endpoint lacks a coordinate or an area that the
\* endpoint requires
Absent(e, b) ==
  CASE e = "roof" -> Undefined \in {b.latitude, b.longitude, b.area}
    [] e = "forecast" -> Undefined \in {b.latitude, b.longitude}
    [] e = "air" -> ~HasBounds(b) /\ Undefined \in {b.latitude, b.longitude}

\* C29: getRoofData, getRainfallForecast and getAirQuality answer 400
\* exactly when a required coordinate or area is absent from the request;
\* a request that gives them as numbers, 0 included, is not rejected and
\* goes on to the gateway or to the cache.
C29_RejectsExactlyAbsent ==
  \A r \in Reqs :
     (ep[r] \in {"roof", "forecast", "air"} /\ pc[r] # "idle")
       => /\ (pc[r] = "done" /\ resp[r].status = 400) <=> Absent(ep[r], body[r])
          /\ ~Absent(ep[r], body[r]) => calls[r] # <<>>

\* request r has been answered from the cache by its endpoint
ServedFromCache(r) ==
  /\ ep[r] \in {"forecast", "air"} /\ pc[r] = "done"
  /\ calls[r] # <<>> /\ calls[r][1].hit

\* the answer of request r has been computed for request q, from the
\* upstream
ComputedFor(r, q) ==
  /\ q # r /\ ep[q] = ep[r] /\ pc[q] = "done" /\ resp[q].status = 200
  /\ calls[q] # <<>> /\ ~calls[q][1].hit
  /\ resp[q].body = resp[r].body

\* C30: an answer served from the cache answers the request that receives
\* it: a forecast served from the cache has been computed for the number
\* of days this request asks for, an air quality answer for the bounding
\* box (or the point) this request names.
C30_CachedAnswerFitsRequest ==
  \A r \in Reqs : \A q \in Reqs :
     (ServedFromCache(r) /\ ComputedFor(r, q))
       => /\ ep[r] = "forecast" => ForecastDays(body[q]) = ForecastDays(body[r])
          /\ ep[r] = "air" => body[q].bounds = body[r].bounds
====
